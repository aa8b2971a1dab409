------------------------- MODULE ArticleLibraryProofs -------------------------
(***************************************************************************)
(* Proofs about ArticleLibrary, in four parts.                             *)
(*                                                                         *)
(* The first follows every function of the hook and every step, and shows  *)
(* that the state stays of its type and that a step's Outcome is one of    *)
(* three: the hook hears at most one of the answers in flight, one of its  *)
(* requests is answered with the row as it is, or a session begins.  The   *)
(* types and the separation of sessions follow.                            *)
(*                                                                         *)
(* The second part forgets the steps and reasons about Outcome alone: the  *)
(* answers in flight are moments of one history of the row, the thread is  *)
(* one that mergeThread has only moved forward in it, and the app knows    *)
(* the row's generation unless a retry's outcome is unknown to it.         *)
(*                                                                         *)
(* The third follows the steps once more for the read status: the thread   *)
(* shows the user's last choice, the queue of writes ends with it, and     *)
(* what is in flight agrees with the row or will not be believed.          *)
(*                                                                         *)
(* The fourth follows them for the archive: every row below a place where  *)
(* a page of the list begins, and above the next such place, is shown.     *)
(***************************************************************************)
EXTENDS ArticleLibrary, ListingProofs, SequenceTheorems

-----------------------------------------------------------------------------
(* The types of the hook's state, n rows having been saved.                *)
Filters == Queries \cup {"all"}
Cursors == [row : Nat, query : Filters]
Lists(n) == {l \in Seq(1 .. n) : IsInjective(l)}
Waits == {"open", "poll"}

HomeRequests(n) ==
    [fresh : BOOLEAN, same : BOOLEAN, on : {"sent", "ok"}, rows : Lists(n),
     item : Threads]
PageRequests(n) ==
    [fresh : BOOLEAN, more : BOOLEAN, query : Filters, cursor : Cursors,
     same : BOOLEAN, on : {"sent", "ok", "refused"}, rows : Lists(n),
     item : Threads, next : Cursors]
DetailRequests ==
    [mapped : BOOLEAN, waits : SUBSET Waits, same : BOOLEAN,
     on : {"sent", "ok", "missing"}, item : Threads]
Writes ==
    [status : ReadStatus, last : BOOLEAN,
     on : {"queued", "sent", "ok", "missing"}, item : Threads]
Requests == [on : {"no", "sent", "ok", "missing", "refused"}, item : Threads]
Saves(n) ==
    {s \in [on : {"no", "sent", "new", "known"}, row : 0 .. n, item : Threads] :
        s.on \in {"new", "known"} => s.row # 0}
Intents == {NoIntent} \cup [status : ReadStatus, pending : BOOLEAN]

Clients(n) ==
    [account : Users \cup {None}, active : BOOLEAN, screen : {"home", "archive"},
     query : Filters,
     thread : Threads, removed : BOOLEAN, intent : Intents,
     home : Lists(n), archive : Lists(n), cursor : Cursors, moreBusy : BOOLEAN,
     archiveError : BOOLEAN, timer : BOOLEAN,
     open : BOOLEAN, detailError : BOOLEAN, entry : BOOLEAN,
     density : BOOLEAN, densityError : BOOLEAN,
     retryKey : {None, "unknown", "known"},
     homes : SUBSET HomeRequests(n), pages : SUBSET PageRequests(n),
     details : SUBSET DetailRequests, status : Requests,
     writes : Seq(Writes), retry : Requests, variant : Requests,
     save : Saves(n), removal : Requests]

(* What is in flight of the article.                                       *)
Marks(c) ==
    {NoThread} \cup {h.item : h \in c.homes} \cup {p.item : p \in c.pages}
    \cup {d.item : d \in c.details}
    \cup {c.writes[i].item : i \in 1 .. Len(c.writes)}
    \cup {c.status.item, c.retry.item, c.variant.item, c.save.item}

(* What differs at most in what the user chooses, not in what the server   *)
(* makes.                                                                  *)
Alike(t, u) ==
    /\ u.gen = t.gen /\ u.res = t.res /\ u.phase = t.phase /\ u.at = t.at
    /\ u.loaded = t.loaded /\ u.doc = t.doc /\ u.stale = t.stale

(* A step of the hook that hears nothing.                                  *)
Quiet(c, d) ==
    /\ d.account = c.account /\ d.removed = c.removed
    /\ Alike(c.thread, d.thread)
    /\ Marks(d) \subseteq Marks(c)
    /\ d.retry = c.retry /\ d.retryKey = c.retryKey

LEMMA QuietTransitive ==
    ASSUME NEW b, NEW c, NEW d, Quiet(b, c), Quiet(c, d)
    PROVE  Quiet(b, d)
  BY DEF Quiet, Alike

-----------------------------------------------------------------------------
(* The parts of a typed state of the hook.                                 *)
LEMMA ClientParts ==
    ASSUME NEW n \in Nat, NEW c \in Clients(n)
    PROVE  /\ c.account \in Users \cup {None} /\ c.screen \in {"home", "archive"}
           /\ c.query \in Filters /\ c.thread \in Threads /\ c.intent \in Intents
           /\ c.home \in Lists(n) /\ c.archive \in Lists(n) /\ c.cursor \in Cursors
           /\ c.homes \in SUBSET HomeRequests(n)
           /\ c.pages \in SUBSET PageRequests(n)
           /\ c.details \in SUBSET DetailRequests
           /\ c.status \in Requests /\ c.retry \in Requests
           /\ c.variant \in Requests /\ c.removal \in Requests
           /\ c.writes \in Seq(Writes) /\ c.save \in Saves(n)
           /\ c.removed \in BOOLEAN /\ c.active \in BOOLEAN /\ c.open \in BOOLEAN
           /\ c.moreBusy \in BOOLEAN /\ c.timer \in BOOLEAN /\ c.density \in BOOLEAN
           /\ c.densityError \in BOOLEAN /\ c.detailError \in BOOLEAN
           /\ c.entry \in BOOLEAN /\ c.archiveError \in BOOLEAN
           /\ c.retryKey \in {None, "unknown", "known"}
  BY DEF Clients

LEMMA ItemDefaults ==
    /\ NoVariant \in Variants /\ NoThread \in Threads /\ NoRequest \in Requests
    /\ NoCursor \in Cursors /\ NoIntent \in Intents
    /\ \A n \in Nat : NoSave \in Saves(n) /\ <<>> \in Lists(n)
    /\ 0 \in Documents /\ Generations \subseteq Documents
    /\ Documents \subseteq Nat
<1>1. 0 \in Documents /\ Generations \subseteq Documents /\ Documents \subseteq Nat
  BY GenerationAssumption DEF Documents, Generations
<1>2. NoVariant \in Variants
  BY DEF Variants
<1>3. NoThread \in Threads
  BY <1>1, <1>2 DEF NoThread, Threads, Phases, ReadStatus
<1>4. NoRequest \in Requests /\ NoCursor \in Cursors /\ NoIntent \in Intents
  BY <1>3 DEF NoRequest, Requests, NoCursor, Cursors, Filters, NoIntent, Intents
<1>5. ASSUME NEW n \in Nat PROVE NoSave \in Saves(n) /\ <<>> \in Lists(n)
  BY <1>3 DEF NoSave, Saves, Lists, IsInjective
<1>6. QED
  BY <1>1, <1>2, <1>3, <1>4, <1>5

(* Items and threads are of the type of threads.                           *)
LEMMA RowItemsTyped ==
    ASSUME NEW r \in Rows
    PROVE  ListItem(r) \in Threads /\ RowItem(r) \in Threads /\ DetailItem(r) \in Threads
<1>1. /\ r.gen \in Documents /\ r.res \in Documents /\ r.phase \in Phases
      /\ r.at \in Nat /\ r.read \in ReadStatus /\ r.variant \in Variants
  BY ItemDefaults DEF Rows
<1>2. ListItem(r) \in Threads
  BY <1>1, ItemDefaults DEF ListItem, Threads
<1>3. RowItem(r) \in Threads
  BY <1>1, <1>2 DEF RowItem, Threads
<1>4. DetailItem(r) \in Threads
  <2>1. (IF r.res # 0 /\ r.variant.src = r.res THEN r.variant ELSE NoVariant) \in Variants
    BY <1>1, ItemDefaults
  <2>2. QED BY <1>3, <2>1 DEF DetailItem, Threads
<1>5. QED BY <1>2, <1>3, <1>4

LEMMA MergeTyped ==
    ASSUME NEW t \in Threads, NEW i \in Threads
    PROVE  Merge(t, i) \in Threads /\ StatusItem(t, i) \in Threads
<1>1. KeepDocument(t, i) \in Threads
  BY DEF KeepDocument, Threads
<1>2. Merge(t, i) \in {t, i, KeepDocument(t, i)}
  BY DEF Merge
<1>3. StatusItem(t, i) \in Threads
  BY DEF StatusItem, Threads
<1>4. QED BY <1>1, <1>2, <1>3

-----------------------------------------------------------------------------
(* The functions of the hook.                                              *)

LEMMA ReceiveFits ==
    ASSUME NEW n \in Nat, NEW c \in Clients(n), NEW i \in Threads, NEW same
    PROVE  \E t \in Threads :
             /\ Receive(c, i, same) = [c EXCEPT !.thread = t]
             /\ Receive(c, i, same) \in Clients(n)
             /\ t # c.thread => Known(i) /\ ~c.removed /\ Alike(Merge(c.thread, i), t)
             /\ ~c.removed /\ Known(i) => Alike(Merge(c.thread, i), t)
<1> DEFINE m == Merge(c.thread, i)
           u == [m EXCEPT !.read = c.intent.status]
<1>1. c.thread \in Threads /\ c.intent \in Intents /\ m \in Threads
  BY ClientParts, MergeTyped
<1>2. \A t \in Threads : [c EXCEPT !.thread = t] \in Clients(n)
  BY DEF Clients
<1>3. c = [c EXCEPT !.thread = c.thread]
  BY DEF Clients
<1> HIDE DEF m
<1>4. ASSUME c.intent # NoIntent PROVE u \in Threads /\ Alike(m, u)
  BY <1>1, <1>4 DEF Intents, Threads, Alike
<1>5. Alike(m, m)
  BY DEF Alike
<1>6. CASE c.removed \/ ~Known(i)
  BY <1>1, <1>2, <1>3, <1>6 DEF Receive
<1>7. CASE ~(c.removed \/ ~Known(i)) /\ c.intent # NoIntent /\ (c.intent.pending \/ ~same)
  <2>1. Receive(c, i, same) = [c EXCEPT !.thread = u]
    BY <1>7 DEF Receive, m
  <2>2. QED BY <1>2, <1>4, <1>7, <2>1 DEF m
<1>8. CASE ~(c.removed \/ ~Known(i)) /\ ~(c.intent # NoIntent /\ (c.intent.pending \/ ~same))
  <2>1. Receive(c, i, same) = [c EXCEPT !.thread = m]
    BY <1>8 DEF Receive, m
  <2>2. QED BY <1>1, <1>2, <1>5, <1>8, <2>1 DEF m
<1>9. QED BY <1>6, <1>7, <1>8

LEMMA FetchDetailFits ==
    ASSUME NEW n \in Nat, NEW c \in Clients(n), NEW force \in BOOLEAN,
           NEW waits \in SUBSET Waits
    PROVE  /\ FetchDetail(c, force, waits) \in Clients(n)
           /\ Quiet(c, FetchDetail(c, force, waits))
<1> DEFINE mapped == {d \in c.details : d.mapped}
           joined == {[d EXCEPT !.waits = @ \cup waits] : d \in mapped}
           unmapped == {[d EXCEPT !.mapped = FALSE] : d \in c.details}
           new == [mapped |-> TRUE, waits |-> waits, same |-> TRUE,
                   on |-> "sent", item |-> NoThread]
           old == {d.item : d \in c.details} \cup {NoThread}
           Fit(x) == x \in SUBSET DetailRequests /\ \A d \in x : d.item \in old
<1>1. c.details \in SUBSET DetailRequests
  BY ClientParts
<1>2. \A d \in joined \cup unmapped : d \in DetailRequests /\ d.item \in old
  <2>1. ASSUME NEW d \in c.details
        PROVE  /\ [d EXCEPT !.waits = @ \cup waits] \in DetailRequests
               /\ [d EXCEPT !.waits = @ \cup waits].item = d.item
               /\ [d EXCEPT !.mapped = FALSE] \in DetailRequests
               /\ [d EXCEPT !.mapped = FALSE].item = d.item
    BY <1>1 DEF DetailRequests
  <2>2. ASSUME NEW x \in joined PROVE x \in DetailRequests /\ x.item \in old
    <3>1. PICK d \in c.details : x = [d EXCEPT !.waits = @ \cup waits]
      OBVIOUS
    <3>2. QED BY <2>1, <3>1
  <2>3. ASSUME NEW x \in unmapped PROVE x \in DetailRequests /\ x.item \in old
    <3>1. PICK d \in c.details : x = [d EXCEPT !.mapped = FALSE]
      OBVIOUS
    <3>2. QED BY <2>1, <3>1
  <2>4. QED BY <2>2, <2>3
<1>3. new \in DetailRequests /\ new.item \in old
  BY ItemDefaults DEF DetailRequests
<1>4. Fit((c.details \ mapped) \cup joined) /\ Fit(unmapped \cup {new})
  BY <1>1, <1>2, <1>3
<1>5. \A x \in SUBSET DetailRequests : [c EXCEPT !.details = x] \in Clients(n)
  BY DEF Clients
<1>6. ASSUME NEW x, Fit(x) PROVE Quiet(c, [c EXCEPT !.details = x])
  BY <1>6 DEF Clients, Quiet, Alike, Marks
<1>7. FetchDetail(c, force, waits) \in {c,
         [c EXCEPT !.details = (c.details \ mapped) \cup joined],
         [c EXCEPT !.details = unmapped \cup {new}]}
  BY DEF FetchDetail
<1>8. Quiet(c, c)
  BY DEF Quiet, Alike
<1>9. QED BY <1>4, <1>5, <1>6, <1>7, <1>8

LEMMA SeqUpdate ==
    ASSUME NEW T, NEW s \in Seq(T), NEW x \in T, s # <<>>
    PROVE  /\ [s EXCEPT ![1] = x] \in Seq(T)
           /\ Len([s EXCEPT ![1] = x]) = Len(s)
           /\ \A i \in 1 .. Len(s) : [s EXCEPT ![1] = x][i] = IF i = 1 THEN x ELSE s[i]
           /\ 1 \in 1 .. Len(s) /\ s[1] \in T
<1>1. Len(s) \in Nat /\ s \in [1 .. Len(s) -> T] /\ 1 \in 1 .. Len(s)
  BY EmptySeq
<1>2. [s EXCEPT ![1] = x] \in [1 .. Len(s) -> T]
  BY <1>1
<1>3. QED BY <1>1, <1>2

LEMMA StartWriteFits ==
    ASSUME NEW n \in Nat, NEW c \in Clients(n)
    PROVE  /\ StartWrite(c) \in Clients(n)
           /\ Quiet(c, StartWrite(c))
           /\ StartWrite(c).thread = c.thread
<1>1. c.writes \in Seq(Writes)
  BY ClientParts
<1>2. Quiet(c, c)
  BY DEF Quiet, Alike
<1>3. \A x \in Seq(Writes) : [c EXCEPT !.writes = x] \in Clients(n)
  BY DEF Clients
<1>4. CASE c.writes = <<>>
  BY <1>2, <1>4 DEF StartWrite
<1>5. CASE c.writes # <<>> /\ c.removed
  <2>1. StartWrite(c) = [c EXCEPT !.writes = <<>>]
    BY <1>5 DEF StartWrite
  <2>2. /\ Quiet(c, [c EXCEPT !.writes = <<>>])
        /\ [c EXCEPT !.writes = <<>>].thread = c.thread
    BY DEF Clients, Quiet, Alike, Marks
  <2>3. <<>> \in Seq(Writes)
    OBVIOUS
  <2>4. QED BY <1>3, <2>1, <2>2, <2>3
<1>6. CASE c.writes # <<>> /\ ~c.removed
  <2> DEFINE w == [c.writes[1] EXCEPT !.on = "sent"]
             x == [c.writes EXCEPT ![1] = w]
             d == [c EXCEPT !.writes = x]
  <2>1. c.writes[1] \in Writes /\ 1 \in 1 .. Len(c.writes)
    BY <1>1, <1>6
  <2>2. w \in Writes /\ w.item = c.writes[1].item
    BY <2>1 DEF Writes
  <2> HIDE DEF w
  <2>3. /\ x \in Seq(Writes) /\ Len(x) = Len(c.writes)
        /\ \A i \in 1 .. Len(c.writes) : x[i].item = c.writes[i].item
    BY <1>1, <1>6, <2>1, <2>2, SeqUpdate
  <2> HIDE DEF x
  <2>4. d \in Clients(n) /\ d.writes = x /\ d.thread = c.thread
    BY <1>3, <2>3 DEF Clients
  <2>5. Quiet(c, d)
    BY <2>3 DEF Clients, Quiet, Alike, Marks
  <2>6. StartWrite(c) \in {c, d}
    BY <1>6 DEF StartWrite, x, w, Clients
  <2>7. QED BY <1>2, <2>4, <2>5, <2>6
<1>7. QED BY <1>4, <1>5, <1>6

LEMMA BumpReadFits ==
    ASSUME NEW n \in Nat, NEW c \in Clients(n)
    PROVE  /\ BumpRead(c) \in Clients(n)
           /\ Quiet(c, BumpRead(c))
           /\ BumpRead(c).thread = c.thread /\ BumpRead(c).writes = c.writes
<1> DEFINE hs == {[h EXCEPT !.same = FALSE] : h \in c.homes}
           ps == {[p EXCEPT !.same = FALSE] : p \in c.pages}
           ds == {[d EXCEPT !.same = FALSE] : d \in c.details}
           b == [c EXCEPT !.homes = hs, !.pages = ps, !.details = ds]
<1>1. ASSUME NEW h \in c.homes
      PROVE  /\ [h EXCEPT !.same = FALSE] \in HomeRequests(n)
             /\ [h EXCEPT !.same = FALSE].item = h.item
  <2>1. h \in HomeRequests(n)
    BY ClientParts
  <2>2. QED BY <2>1 DEF HomeRequests
<1>2. ASSUME NEW p \in c.pages
      PROVE  /\ [p EXCEPT !.same = FALSE] \in PageRequests(n)
             /\ [p EXCEPT !.same = FALSE].item = p.item
  <2>1. p \in PageRequests(n)
    BY ClientParts
  <2>2. QED BY <2>1 DEF PageRequests
<1>3. ASSUME NEW d \in c.details
      PROVE  /\ [d EXCEPT !.same = FALSE] \in DetailRequests
             /\ [d EXCEPT !.same = FALSE].item = d.item
  <2>1. d \in DetailRequests
    BY ClientParts
  <2>2. QED BY <2>1 DEF DetailRequests
<1>4. /\ hs \in SUBSET HomeRequests(n) /\ \A h \in hs : \E g \in c.homes : h.item = g.item
      /\ ps \in SUBSET PageRequests(n) /\ \A p \in ps : \E g \in c.pages : p.item = g.item
      /\ ds \in SUBSET DetailRequests /\ \A d \in ds : \E g \in c.details : d.item = g.item
  BY <1>1, <1>2, <1>3
<1>5. BumpRead(c) = b
  BY DEF BumpRead
<1> HIDE DEF hs, ps, ds
<1>6. b \in Clients(n)
  BY <1>4 DEF Clients
<1>7. /\ b.homes = hs /\ b.pages = ps /\ b.details = ds
      /\ b.thread = c.thread /\ b.writes = c.writes
      /\ b.status = c.status /\ b.retry = c.retry /\ b.variant = c.variant
      /\ b.save = c.save /\ b.account = c.account /\ b.removed = c.removed
      /\ b.retryKey = c.retryKey
  BY DEF Clients
<1> HIDE DEF b
<1>8. Marks(b) \subseteq Marks(c)
  BY <1>4, <1>7 DEF Marks
<1>9. QED BY <1>5, <1>6, <1>7, <1>8 DEF Quiet, Alike

LEMMA ChangeReadFits ==
    ASSUME NEW n \in Nat, NEW c \in Clients(n), NEW status \in ReadStatus
    PROVE  /\ ChangeRead(c, status) \in Clients(n)
           /\ Quiet(c, ChangeRead(c, status))
<1> DEFINE b == BumpRead(c)
           last == [i \in DOMAIN b.writes |-> [b.writes[i] EXCEPT !.last = FALSE]]
           new == [status |-> status, last |-> TRUE, on |-> "queued", item |-> NoThread]
           t == [b.thread EXCEPT !.read = IF Known(c.thread) THEN status ELSE b.thread.read]
           i == [status |-> status, pending |-> TRUE]
           d == [b EXCEPT !.intent = i, !.thread = t, !.writes = Append(last, new)]
<1>1. /\ b \in Clients(n) /\ Quiet(c, b)
      /\ b.thread = c.thread /\ b.writes = c.writes
      /\ b.thread \in Threads /\ b.writes \in Seq(Writes)
  BY BumpReadFits, ClientParts
<1>2. ChangeRead(c, status) = IF c.account = None THEN c ELSE StartWrite(d)
  <2>1. d = [b EXCEPT
            !.intent = [status |-> status, pending |-> TRUE],
            !.thread.read = IF Known(c.thread) THEN status ELSE @,
            !.writes = Append([j \in DOMAIN @ |-> [@[j] EXCEPT !.last = FALSE]],
                              [status |-> status, last |-> TRUE,
                               on |-> "queued", item |-> NoThread])]
    OBVIOUS
  <2>2. QED BY <2>1 DEF ChangeRead
<1> HIDE DEF b
<1>3. i \in Intents
  BY DEF Intents
<1>4. t \in Threads /\ Alike(b.thread, t)
  BY <1>1 DEF Threads, Alike
<1>5. new \in Writes /\ new.item = NoThread
  BY ItemDefaults DEF Writes
<1>6. /\ last \in Seq(Writes) /\ Len(last) = Len(b.writes)
      /\ \A j \in 1 .. Len(b.writes) : last[j].item = b.writes[j].item
  <2>1. Len(b.writes) \in Nat /\ DOMAIN b.writes = 1 .. Len(b.writes)
    BY <1>1
  <2>2. \A w \in Writes : [w EXCEPT !.last = FALSE] \in Writes
                          /\ [w EXCEPT !.last = FALSE].item = w.item
    BY DEF Writes
  <2>3. \A j \in 1 .. Len(b.writes) : b.writes[j] \in Writes
    BY <1>1
  <2>4. last \in [1 .. Len(b.writes) -> Writes]
    BY <2>1, <2>2, <2>3
  <2>5. QED BY <2>1, <2>2, <2>3, <2>4
<1> HIDE DEF last, new, t, i
<1>7. /\ Append(last, new) \in Seq(Writes)
      /\ Len(Append(last, new)) = Len(b.writes) + 1 /\ Len(b.writes) \in Nat
      /\ \A j \in 1 .. Len(b.writes) + 1 :
            Append(last, new)[j] = IF j <= Len(b.writes) THEN last[j] ELSE new
  BY <1>1, <1>5, <1>6
<1> DEFINE ws == Append(last, new)
<1> HIDE DEF ws
<1>8. d \in Clients(n)
  BY <1>1, <1>3, <1>4, <1>7 DEF Clients, ws
<1>9. /\ d.homes = b.homes /\ d.pages = b.pages /\ d.details = b.details
      /\ d.thread = t /\ d.writes = ws
      /\ d.status = b.status /\ d.retry = b.retry /\ d.variant = b.variant
      /\ d.save = b.save /\ d.account = b.account /\ d.removed = b.removed
      /\ d.retryKey = b.retryKey
  BY <1>1 DEF Clients, ws
<1> HIDE DEF d
<1>10. \A j \in 1 .. Len(ws) : ws[j].item \in Marks(b)
  <2>1. \A j \in 1 .. Len(b.writes) : b.writes[j].item \in Marks(b)
    BY DEF Marks
  <2>2. NoThread \in Marks(b)
    BY DEF Marks
  <2>3. \A j \in 1 .. Len(b.writes) + 1 : j <= Len(b.writes) => j \in 1 .. Len(b.writes)
    BY <1>7
  <2>4. QED BY <1>5, <1>6, <1>7, <2>1, <2>2, <2>3 DEF ws
<1>11. Marks(d) \subseteq Marks(b)
  BY <1>9, <1>10 DEF Marks
<1>12. Quiet(b, d)
  BY <1>4, <1>9, <1>11 DEF Quiet
<1>13. StartWrite(d) \in Clients(n) /\ Quiet(d, StartWrite(d))
  BY <1>8, StartWriteFits
<1>14. Quiet(c, StartWrite(d))
  BY <1>1, <1>12, <1>13, QuietTransitive
<1>15. Quiet(c, c)
  BY DEF Quiet, Alike
<1>16. QED BY <1>2, <1>13, <1>14, <1>15

LEMMA EffectsFit ==
    ASSUME NEW n \in Nat, NEW c \in Clients(n)
    PROVE  /\ Effects(c) \in Clients(n)
           /\ Quiet(c, Effects(c))
           /\ ~c.open => Effects(c) = c
<1> DEFINE s == [c EXCEPT !.entry = TRUE]
           a == AutoRead(c)
<1>1. Quiet(c, c)
  BY DEF Quiet, Alike
<1>2. s \in Clients(n) /\ Quiet(c, s)
  <2>1. s \in Clients(n)
    BY DEF Clients
  <2>2. /\ s.homes = c.homes /\ s.pages = c.pages /\ s.details = c.details
        /\ s.thread = c.thread /\ s.writes = c.writes
        /\ s.status = c.status /\ s.retry = c.retry /\ s.variant = c.variant
        /\ s.save = c.save /\ s.account = c.account /\ s.removed = c.removed
        /\ s.retryKey = c.retryKey
    BY DEF Clients
  <2> HIDE DEF s
  <2>3. Marks(s) = Marks(c)
    BY <2>2 DEF Marks
  <2>4. QED BY <2>1, <2>2, <2>3 DEF Quiet, Alike
<1>3. ChangeRead(s, "READ") \in Clients(n) /\ Quiet(s, ChangeRead(s, "READ"))
  BY <1>2, ChangeReadFits DEF ReadStatus
<1>4. a \in {c, s, ChangeRead(s, "READ")}
  BY DEF AutoRead
<1>5. a \in Clients(n) /\ Quiet(c, a)
  <2>1. Quiet(c, ChangeRead(s, "READ"))
    BY <1>2, <1>3, QuietTransitive
  <2>2. QED BY <1>1, <1>2, <1>3, <1>4, <2>1
<1>6. ~c.open => a = c
  BY DEF AutoRead
<1> HIDE DEF a
<1>7. FetchDetail(a, FALSE, {}) \in Clients(n) /\ Quiet(a, FetchDetail(a, FALSE, {}))
  BY <1>5, FetchDetailFits
<1>8. Effects(c) \in {a, FetchDetail(a, FALSE, {})} /\ (~a.open => Effects(c) = a)
  BY DEF Effects, FetchStale, a
<1>9. Quiet(c, FetchDetail(a, FALSE, {}))
  BY <1>5, <1>7, QuietTransitive
<1>10. QED BY <1>5, <1>6, <1>7, <1>8, <1>9

-----------------------------------------------------------------------------
(* A hook of another account: what it has and hears is empty.              *)
Empty(c) ==
    /\ c.thread = NoThread /\ c.home = <<>> /\ c.archive = <<>> /\ ~c.open
    /\ \A h \in c.homes : h.rows = <<>> /\ h.item = NoThread
    /\ \A p \in c.pages : p.rows = <<>> /\ p.item = NoThread
    /\ c.details = {} /\ c.writes = <<>>
    /\ c.status = NoRequest /\ c.retry = NoRequest /\ c.variant = NoRequest
    /\ c.save.on \in {"no", "sent"} /\ c.save.item = NoThread
    /\ c.removal = NoRequest

(* The lists are asked for again, or emptied.                              *)
ListStep(n, c, d) ==
    /\ d \in Clients(n) /\ Quiet(c, d)
    /\ Empty(c) => Empty(d)

LEMMA ListStepTransitive ==
    ASSUME NEW n, NEW b, NEW c, NEW d, ListStep(n, b, c), ListStep(n, c, d)
    PROVE  ListStep(n, b, d)
  BY QuietTransitive DEF ListStep

LEMMA RefreshHomeFits ==
    ASSUME NEW n \in Nat, NEW c \in Clients(n)
    PROVE  ListStep(n, c, RefreshHome(c))
<1> DEFINE new == [fresh |-> TRUE, same |-> TRUE, on |-> "sent",
                   rows |-> <<>>, item |-> NoThread]
           hs == {[h EXCEPT !.fresh = FALSE] : h \in c.homes} \cup {new}
           d == [c EXCEPT !.homes = hs]
<1>1. new \in HomeRequests(n) /\ new.item = NoThread /\ new.rows = <<>>
  BY ItemDefaults DEF HomeRequests
<1>2. ASSUME NEW h \in c.homes
      PROVE  /\ [h EXCEPT !.fresh = FALSE] \in HomeRequests(n)
             /\ [h EXCEPT !.fresh = FALSE].item = h.item
             /\ [h EXCEPT !.fresh = FALSE].rows = h.rows
  <2>1. h \in HomeRequests(n)
    BY ClientParts
  <2>2. QED BY <2>1 DEF HomeRequests
<1> HIDE DEF new
<1>3. /\ hs \in SUBSET HomeRequests(n)
      /\ \A h \in hs : \/ h.item = NoThread /\ h.rows = <<>>
                       \/ \E g \in c.homes : h.item = g.item /\ h.rows = g.rows
  BY <1>1, <1>2
<1>4. RefreshHome(c) \in {c, d}
  BY DEF RefreshHome, new
<1> HIDE DEF hs
<1>5. d \in Clients(n)
  BY <1>3 DEF Clients
<1>6. Quiet(c, d)
  BY <1>3 DEF Clients, Quiet, Alike, Marks
<1>7. Empty(c) => Empty(d)
  BY <1>3 DEF Clients, Empty
<1>8. ListStep(n, c, c)
  BY DEF ListStep, Quiet, Alike
<1>9. QED BY <1>4, <1>5, <1>6, <1>7, <1>8 DEF ListStep

LEMMA PageRequestFits ==
    ASSUME NEW n \in Nat, NEW c \in Clients(n), NEW more \in BOOLEAN
    PROVE  /\ PageRequest(c, more) \in PageRequests(n)
           /\ PageRequest(c, more).item = NoThread
           /\ PageRequest(c, more).rows = <<>>
<1>1. c.query \in Filters /\ c.cursor \in Cursors
  BY ClientParts
<1>2. QED BY <1>1, ItemDefaults DEF PageRequest, PageRequests

(* The pages in flight are out of date, and another one is asked for.      *)
LEMMA PagesFit ==
    ASSUME NEW n \in Nat, NEW c \in Clients(n)
    PROVE  LET ps == {[p EXCEPT !.fresh = FALSE] : p \in c.pages}
           IN  /\ ps \in SUBSET PageRequests(n)
               /\ \A p \in ps : \E g \in c.pages : p.item = g.item /\ p.rows = g.rows
<1>1. ASSUME NEW p \in c.pages
      PROVE  /\ [p EXCEPT !.fresh = FALSE] \in PageRequests(n)
             /\ [p EXCEPT !.fresh = FALSE].item = p.item
             /\ [p EXCEPT !.fresh = FALSE].rows = p.rows
  <2>1. p \in PageRequests(n)
    BY ClientParts
  <2>2. QED BY <2>1 DEF PageRequests
<1>2. QED BY <1>1

LEMMA RefreshArchiveFits ==
    ASSUME NEW n \in Nat, NEW c \in Clients(n)
    PROVE  ListStep(n, c, RefreshArchive(c))
<1> DEFINE new == PageRequest(c, FALSE)
           ps == {[p EXCEPT !.fresh = FALSE] : p \in c.pages} \cup {new}
           d == [c EXCEPT !.archiveError = FALSE, !.pages = ps]
<1>1. new \in PageRequests(n) /\ new.item = NoThread /\ new.rows = <<>>
  BY PageRequestFits
<1> HIDE DEF new
<1>2. /\ ps \in SUBSET PageRequests(n)
      /\ \A p \in ps : \/ p.item = NoThread /\ p.rows = <<>>
                       \/ \E g \in c.pages : p.item = g.item /\ p.rows = g.rows
  BY <1>1, PagesFit
<1>3. RefreshArchive(c) \in {c, d}
  BY DEF RefreshArchive, new
<1> HIDE DEF ps
<1>4. d \in Clients(n)
  BY <1>2 DEF Clients
<1>5. Quiet(c, d)
  BY <1>2 DEF Clients, Quiet, Alike, Marks
<1>6. Empty(c) => Empty(d)
  BY <1>2 DEF Clients, Empty
<1>7. ListStep(n, c, c)
  BY DEF ListStep, Quiet, Alike
<1>8. QED BY <1>3, <1>4, <1>5, <1>6, <1>7 DEF ListStep

LEMMA LoadMoreFits ==
    ASSUME NEW n \in Nat, NEW c \in Clients(n)
    PROVE  ListStep(n, c, LoadMore(c))
<1> DEFINE new == PageRequest(c, TRUE)
           ps == c.pages \cup {new}
           d == [c EXCEPT !.moreBusy = TRUE, !.pages = ps]
<1>1. new \in PageRequests(n) /\ new.item = NoThread /\ new.rows = <<>>
  BY PageRequestFits
<1> HIDE DEF new
<1>2. /\ ps \in SUBSET PageRequests(n)
      /\ \A p \in ps : p \in c.pages \/ (p.item = NoThread /\ p.rows = <<>>)
  <2>1. c.pages \in SUBSET PageRequests(n)
    BY ClientParts
  <2>2. ASSUME NEW p \in ps PROVE p \in c.pages \/ p = new
    OBVIOUS
  <2>3. ps \in SUBSET PageRequests(n)
    BY <1>1, <2>1
  <2>4. ASSUME NEW p \in ps PROVE p \in c.pages \/ (p.item = NoThread /\ p.rows = <<>>)
    BY <1>1, <2>2
  <2>5. QED BY <2>3, <2>4
<1>3. LoadMore(c) = d
  BY DEF LoadMore, new
<1> HIDE DEF ps
<1>4. d \in Clients(n)
  BY <1>2 DEF Clients
<1>5. Quiet(c, d)
  BY <1>2 DEF Clients, Quiet, Alike, Marks
<1>6. Empty(c) => Empty(d)
  BY <1>2 DEF Clients, Empty
<1>7. QED BY <1>3, <1>4, <1>5, <1>6 DEF ListStep

LEMMA ResetArchiveFits ==
    ASSUME NEW n \in Nat, NEW c \in Clients(n)
    PROVE  ListStep(n, c, ResetArchive(c))
<1> DEFINE ps == {[p EXCEPT !.fresh = FALSE] : p \in c.pages}
           timer == c.account # None /\ c.screen = "archive"
           d == [c EXCEPT !.pages = ps, !.cursor = NoCursor, !.moreBusy = FALSE,
                          !.archive = <<>>, !.archiveError = FALSE, !.timer = timer]
<1>1. /\ ps \in SUBSET PageRequests(n)
      /\ \A p \in ps : \E g \in c.pages : p.item = g.item /\ p.rows = g.rows
  BY PagesFit
<1>2. ResetArchive(c) = d
  BY DEF ResetArchive
<1>3. timer \in BOOLEAN
  OBVIOUS
<1> HIDE DEF ps, timer
<1>4. d \in Clients(n)
  BY <1>1, <1>3, ItemDefaults DEF Clients
<1>5. Quiet(c, d)
  BY <1>1 DEF Clients, Quiet, Alike, Marks
<1>6. Empty(c) => Empty(d)
  BY <1>1 DEF Clients, Empty
<1>7. QED BY <1>2, <1>4, <1>5, <1>6 DEF ListStep

LEMMA ListStepReflexive ==
    ASSUME NEW n, NEW c \in Clients(n)
    PROVE  ListStep(n, c, c)
  BY DEF ListStep, Quiet, Alike

(* A session begins with nothing.                                          *)
LEMMA BeginFits ==
    ASSUME NEW n \in Nat, NEW u \in Users \cup {None},
           NEW screen \in {"home", "archive"}, NEW query \in Filters
    PROVE  LET b == Begin(u, screen, query)
           IN  /\ b \in Clients(n) /\ b.account = u /\ Empty(b)
               /\ Marks(b) = {NoThread} /\ b.retryKey = None /\ ~b.removed
               /\ b.intent = NoIntent /\ b.pages = {} /\ b.cursor = NoCursor
<1> DEFINE f == Fresh(u, screen, query)
           b == Begin(u, screen, query)
<1>1. f \in Clients(n)
  <2>1. <<>> \in Seq(Writes)
    OBVIOUS
  <2>2. QED BY ItemDefaults, <2>1 DEF Fresh, Clients
<1>2. /\ f.account = u /\ f.thread = NoThread /\ f.retryKey = None /\ ~f.removed
      /\ f.home = <<>> /\ f.archive = <<>> /\ ~f.open
      /\ f.homes = {} /\ f.pages = {} /\ f.details = {} /\ f.writes = <<>>
      /\ f.status = NoRequest /\ f.retry = NoRequest /\ f.variant = NoRequest
      /\ f.save = NoSave /\ f.removal = NoRequest /\ f.intent = NoIntent
  BY DEF Fresh
<1> HIDE DEF f
<1>3. Empty(f)
  BY <1>2 DEF Empty, NoSave
<1>4. Marks(f) = {NoThread}
  <2>1. \A i \in 1 .. Len(f.writes) : FALSE
    BY <1>2
  <2>2. QED BY <1>2, <2>1 DEF Marks, NoSave, NoRequest
<1>5. ListStep(n, f, ResetArchive(f))
  BY <1>1, ResetArchiveFits
<1>6. ListStep(n, ResetArchive(f), RefreshHome(ResetArchive(f)))
  BY <1>5, RefreshHomeFits DEF ListStep
<1>7. ListStep(n, f, b)
  BY <1>5, <1>6, ListStepTransitive DEF Begin, f
<1>8. NoThread \in Marks(b)
  BY DEF Marks
<1>9. b.intent = NoIntent /\ b.pages = {} /\ b.cursor = NoCursor
  <2> DEFINE g == ResetArchive(f)
  <2>1. g \in Clients(n)
    BY <1>5 DEF ListStep
  <2>2. g.intent = f.intent /\ g.cursor = NoCursor
        /\ g.pages = {[p EXCEPT !.fresh = FALSE] : p \in f.pages}
    BY <1>1 DEF ResetArchive, Clients
  <2>3. g.pages = {}
    BY <1>2, <2>2
  <2>4. b = RefreshHome(g)
    BY DEF Begin, f
  <2> HIDE DEF g, b
  <2>5. b.intent = g.intent /\ b.pages = g.pages /\ b.cursor = g.cursor
    BY <2>1, <2>4 DEF RefreshHome, Clients
  <2>6. QED BY <1>2, <2>2, <2>3, <2>5
<1> HIDE DEF b
<1>10. b \in Clients(n) /\ b.account = u /\ Empty(b) /\ Marks(b) = {NoThread}
       /\ b.retryKey = None /\ ~b.removed
  BY <1>2, <1>3, <1>4, <1>7, <1>8 DEF ListStep, Quiet
<1>11. QED BY <1>9, <1>10 DEF b

LEMMA AbortFits ==
    ASSUME NEW n \in Nat, NEW c \in Clients(n)
    PROVE  ListStep(n, c, Abort(c))
<1> DEFINE busy == IF \E p \in c.pages : p.fresh THEN FALSE ELSE c.moreBusy
           d == [c EXCEPT !.active = FALSE, !.homes = {}, !.details = {},
                          !.status = NoRequest, !.pages = {}, !.moreBusy = busy]
<1>1. busy \in BOOLEAN
  BY ClientParts
<1>2. Abort(c) = d
  BY DEF Abort
<1> HIDE DEF busy
<1>3. d \in Clients(n)
  BY <1>1, ItemDefaults DEF Clients
<1>4. Quiet(c, d)
  BY DEF Clients, Quiet, Alike, Marks, NoRequest
<1>5. Empty(c) => Empty(d)
  BY DEF Clients, Empty
<1>6. QED BY <1>2, <1>3, <1>4, <1>5 DEF ListStep

LEMMA ResumeFits ==
    ASSUME NEW n \in Nat, NEW c \in Clients(n)
    PROVE  ListStep(n, c, Resume(c))
<1> DEFINE h == RefreshHome(c)
           lists == IF c.screen = "archive" THEN RefreshArchive(h) ELSE h
           shown == [lists EXCEPT !.active = TRUE]
<1>1. ListStep(n, c, h)
  BY RefreshHomeFits
<1>2. ListStep(n, c, lists)
  <2>1. ListStep(n, h, RefreshArchive(h))
    BY <1>1, RefreshArchiveFits DEF ListStep
  <2>2. QED BY <1>1, <2>1, ListStepTransitive
<1>3. lists.open = c.open
  BY DEF RefreshHome, RefreshArchive, Clients
<1> HIDE DEF lists
<1>4. ListStep(n, lists, shown)
  <2>1. lists \in Clients(n)
    BY <1>2 DEF ListStep
  <2>2. shown \in Clients(n)
    BY <2>1 DEF Clients
  <2>3. Quiet(lists, shown)
    BY <2>1 DEF Clients, Quiet, Alike, Marks
  <2>4. Empty(lists) => Empty(shown)
    BY <2>1 DEF Clients, Empty
  <2>5. QED BY <2>2, <2>3, <2>4 DEF ListStep
<1>5. ListStep(n, c, shown)
  BY <1>2, <1>4, ListStepTransitive
<1>6. Resume(c) = IF c.open THEN FetchDetail(shown, FALSE, {}) ELSE shown
  BY DEF Resume, lists
<1> HIDE DEF shown
<1>7. FetchDetail(shown, FALSE, {}) \in Clients(n)
      /\ Quiet(shown, FetchDetail(shown, FALSE, {}))
  BY <1>5, FetchDetailFits DEF ListStep
<1>8. c.open => ~Empty(c)
  BY DEF Empty
<1>9. CASE c.open
  <2>1. Quiet(c, shown) /\ shown \in Clients(n)
    BY <1>5 DEF ListStep
  <2>2. Quiet(c, FetchDetail(shown, FALSE, {}))
    BY <1>7, <2>1, QuietTransitive
  <2>3. QED BY <1>6, <1>7, <1>8, <1>9, <2>2 DEF ListStep
<1>10. CASE ~c.open
  BY <1>5, <1>6, <1>10
<1>11. QED BY <1>9, <1>10

LEMMA CloseFits ==
    ASSUME NEW n \in Nat, NEW c \in Clients(n)
    PROVE  Close(c) \in Clients(n) /\ Quiet(c, Close(c))
<1> DEFINE ds == {[d EXCEPT !.waits = @ \ {"open"}] : d \in c.details}
           b == [c EXCEPT !.open = FALSE, !.density = FALSE,
                          !.densityError = FALSE, !.details = ds]
<1>1. ASSUME NEW x \in ds
      PROVE  x \in DetailRequests /\ \E d \in c.details : x.item = d.item
  <2>1. PICK d \in c.details : x = [d EXCEPT !.waits = @ \ {"open"}]
    OBVIOUS
  <2>2. d \in DetailRequests
    BY ClientParts
  <2>3. QED BY <2>1, <2>2 DEF DetailRequests
<1>2. Close(c) = b
  BY DEF Close
<1> HIDE DEF ds
<1>3. ds \in SUBSET DetailRequests
  BY <1>1
<1>4. b \in Clients(n)
  BY <1>3 DEF Clients
<1>5. Quiet(c, b)
  BY <1>1 DEF Clients, Quiet, Alike, Marks
<1>6. QED BY <1>2, <1>4, <1>5

LEMMA OpenFits ==
    ASSUME NEW n \in Nat, NEW c \in Clients(n)
    PROVE  Open(c) \in Clients(n) /\ Quiet(c, Open(c))
<1> DEFINE visit == [c EXCEPT !.open = TRUE, !.entry = FALSE, !.detailError = FALSE,
                              !.density = FALSE, !.densityError = FALSE]
           waits == IF c.thread.loaded THEN {} ELSE {"open"}
           asked == FetchDetail(visit, FALSE, waits)
<1>1. visit \in Clients(n)
  BY DEF Clients
<1>2. Quiet(c, visit)
  BY DEF Clients, Quiet, Alike, Marks
<1>3. waits \in SUBSET Waits
  BY DEF Waits
<1>4. Open(c) = Effects(asked)
  BY DEF Open
<1> HIDE DEF visit, waits
<1>5. asked \in Clients(n) /\ Quiet(visit, asked)
  BY <1>1, <1>3, FetchDetailFits
<1>6. Effects(asked) \in Clients(n) /\ Quiet(asked, Effects(asked))
  BY <1>5, EffectsFit
<1> HIDE DEF asked
<1>7. Quiet(c, asked)
  BY <1>2, <1>5, QuietTransitive
<1>8. Quiet(c, Effects(asked))
  BY <1>6, <1>7, QuietTransitive
<1>9. QED BY <1>4, <1>6, <1>8

LEMMA RequestVariantFits ==
    ASSUME NEW n \in Nat, NEW c \in Clients(n)
    PROVE  RequestVariant(c) \in Clients(n) /\ Quiet(c, RequestVariant(c))
<1> DEFINE v == [c.variant EXCEPT !.on = "sent"]
           b == [c EXCEPT !.variant = v, !.densityError = FALSE]
<1>1. v \in Requests /\ v.item = c.variant.item
  BY ClientParts DEF Requests
<1>2. RequestVariant(c) \in {c, b}
  BY DEF RequestVariant, Clients
<1> HIDE DEF v
<1>3. b \in Clients(n)
  BY <1>1 DEF Clients
<1>4. Quiet(c, b)
  BY <1>1 DEF Clients, Quiet, Alike, Marks
<1>5. Quiet(c, c)
  BY DEF Quiet, Alike
<1>6. QED BY <1>2, <1>3, <1>4, <1>5

LEMMA SelectDensityFits ==
    ASSUME NEW n \in Nat, NEW c \in Clients(n)
    PROVE  SelectDensity(c) \in Clients(n) /\ Quiet(c, SelectDensity(c))
<1> DEFINE b == [c EXCEPT !.density = TRUE, !.densityError = FALSE]
<1>1. b \in Clients(n)
  BY DEF Clients
<1>2. Quiet(c, b)
  BY DEF Clients, Quiet, Alike, Marks
<1>3. SelectDensity(c) \in {b, RequestVariant(b)}
  BY DEF SelectDensity
<1> HIDE DEF b
<1>4. RequestVariant(b) \in Clients(n) /\ Quiet(b, RequestVariant(b))
  BY <1>1, RequestVariantFits
<1>5. Quiet(c, RequestVariant(b))
  BY <1>2, <1>4, QuietTransitive
<1>6. QED BY <1>1, <1>2, <1>3, <1>4, <1>5

-----------------------------------------------------------------------------
(* Lists.                                                                  *)

LEMMA ListParts ==
    ASSUME NEW n \in Nat, NEW l
    PROVE  l \in Lists(n) <=> l \in Seq(Nat) /\ IsInjective(l) /\ Range(l) \subseteq 1 .. n
<1>1. ASSUME l \in Lists(n)
      PROVE  l \in Seq(Nat) /\ IsInjective(l) /\ Range(l) \subseteq 1 .. n
  <2>1. l \in Seq(1 .. n) /\ IsInjective(l)
    BY <1>1 DEF Lists
  <2>2. DOMAIN l = 1 .. Len(l) /\ Len(l) \in Nat /\ \A i \in 1 .. Len(l) : l[i] \in 1 .. n
    BY <2>1
  <2>3. l \in [1 .. Len(l) -> Nat]
    BY <2>1, <2>2
  <2>4. l \in Seq(Nat)
    BY <2>2, <2>3
  <2>5. QED BY <2>1, <2>2, <2>4 DEF Range
<1>2. ASSUME l \in Seq(Nat), IsInjective(l), Range(l) \subseteq 1 .. n
      PROVE  l \in Lists(n)
  <2>1. DOMAIN l = 1 .. Len(l) /\ Len(l) \in Nat /\ l = [i \in 1 .. Len(l) |-> l[i]]
    BY <1>2
  <2>2. \A i \in 1 .. Len(l) : l[i] \in 1 .. n
    BY <1>2, <2>1 DEF Range
  <2>3. l \in [1 .. Len(l) -> 1 .. n]
    BY <2>1, <2>2
  <2>4. l \in Seq(1 .. n)
    BY <2>1, <2>3
  <2>5. QED BY <1>2, <2>4 DEF Lists
<1>3. QED BY <1>1, <1>2

LEMMA ListsGrow ==
    ASSUME NEW n \in Nat
    PROVE  Lists(n) \subseteq Lists(n + 1)
<1>1. 1 .. n \subseteq 1 .. (n + 1)
  OBVIOUS
<1>2. SUFFICES ASSUME NEW l \in Lists(n) PROVE l \in Lists(n + 1)
  OBVIOUS
<1>3. l \in Seq(Nat) /\ IsInjective(l) /\ Range(l) \subseteq 1 .. n
  BY ListParts
<1>4. n + 1 \in Nat /\ Range(l) \subseteq 1 .. (n + 1)
  BY <1>1, <1>3
<1>5. QED BY <1>3, <1>4, ListParts

LEMMA WithoutFits ==
    ASSUME NEW n \in Nat, NEW l \in Lists(n), NEW S
    PROVE  /\ Without(l, S) \in Lists(n)
           /\ Range(Without(l, S)) = Range(l) \ S
           /\ l = <<>> => Without(l, S) = <<>>
<1>1. l \in Seq(Nat) /\ IsInjective(l) /\ Range(l) \subseteq 1 .. n
  BY ListParts
<1>2. /\ Without(l, S) \in Seq(Nat) /\ Range(Without(l, S)) = Range(l) \ S
      /\ IsInjective(Without(l, S))
  BY <1>1, WithoutKeeps
<1>3. Without(l, S) \in Lists(n)
  BY <1>1, <1>2, ListParts
<1>4. ASSUME l = <<>> PROVE Without(l, S) = <<>>
  <2>1. Range(l) = {}
    BY <1>4 DEF Range
  <2>2. Range(Without(l, S)) = {}
    BY <1>2, <2>1
  <2>3. DOMAIN Without(l, S) = {} /\ DOMAIN Without(l, S) = 1 .. Len(Without(l, S))
    BY <1>2, <2>2 DEF Range
  <2>4. Len(Without(l, S)) \in Nat
    BY <1>2
  <2>5. Len(Without(l, S)) = 0
    BY <2>3, <2>4
  <2>6. QED BY <1>2, <2>5, EmptySeq
<1>5. QED BY <1>2, <1>3, <1>4

LEMMA WithoutRemovedFits ==
    ASSUME NEW n \in Nat, NEW l \in Lists(n), NEW c
    PROVE  /\ WithoutRemoved(c, l) \in Lists(n)
           /\ l = <<>> => WithoutRemoved(c, l) = <<>>
  BY WithoutFits DEF WithoutRemoved

(* Two lists of which none has what the other has.                         *)
LEMMA JoinedFits ==
    ASSUME NEW n \in Nat, NEW l \in Lists(n), NEW m \in Lists(n),
           Range(l) \cap Range(m) = {}
    PROVE  /\ l \o m \in Lists(n)
           /\ l = <<>> /\ m = <<>> => l \o m = <<>>
<1>1. /\ l \in Seq(1 .. n) /\ m \in Seq(1 .. n) /\ IsInjective(l) /\ IsInjective(m)
  BY DEF Lists
<1> DEFINE j == l \o m
<1>2. /\ j \in Seq(1 .. n) /\ Len(j) = Len(l) + Len(m)
      /\ Len(l) \in Nat /\ Len(m) \in Nat
      /\ \A i \in 1 .. Len(j) : j[i] = IF i <= Len(l) THEN l[i] ELSE m[i - Len(l)]
      /\ DOMAIN l = 1 .. Len(l) /\ DOMAIN m = 1 .. Len(m) /\ DOMAIN j = 1 .. Len(j)
  BY <1>1
<1> HIDE DEF j
<1>3. ASSUME NEW a \in 1 .. Len(j), NEW b \in 1 .. Len(j), j[a] = j[b]
      PROVE  a = b
  <2>1. a \in Nat /\ b \in Nat /\ (a <= Len(l) \/ a > Len(l)) /\ (b <= Len(l) \/ b > Len(l))
    BY <1>2
  <2>2. \A i \in DOMAIN l : l[i] \in Range(l)
    BY DEF Range
  <2>3. \A i \in DOMAIN m : m[i] \in Range(m)
    BY DEF Range
  <2>4. \A i \in 1 .. Len(j) : i <= Len(l) => i \in DOMAIN l /\ j[i] = l[i]
    BY <1>2
  <2>5. \A i \in 1 .. Len(j) :
           i > Len(l) => i - Len(l) \in DOMAIN m /\ j[i] = m[i - Len(l)]
    BY <1>2
  <2>6. CASE a <= Len(l) /\ b <= Len(l)
    BY <1>1, <1>3, <2>4, <2>6 DEF IsInjective
  <2>7. CASE a > Len(l) /\ b > Len(l)
    <3>1. a - Len(l) = b - Len(l)
      BY <1>1, <1>3, <2>5, <2>7 DEF IsInjective
    <3>2. QED BY <1>2, <2>1, <3>1
  <2>8. CASE a <= Len(l) /\ b > Len(l)
    BY <1>3, <2>2, <2>3, <2>4, <2>5, <2>8
  <2>9. CASE a > Len(l) /\ b <= Len(l)
    BY <1>3, <2>2, <2>3, <2>4, <2>5, <2>9
  <2>10. QED BY <2>1, <2>6, <2>7, <2>8, <2>9
<1>4. IsInjective(j)
  BY <1>2, <1>3 DEF IsInjective
<1>5. l = <<>> /\ m = <<>> => j = <<>>
  BY DEF j
<1>6. QED BY <1>2, <1>4, <1>5 DEF Lists, j

LEMMA AppendUniqueFits ==
    ASSUME NEW n \in Nat, NEW l \in Lists(n), NEW m \in Lists(n)
    PROVE  /\ AppendUnique(l, m) \in Lists(n)
           /\ l = <<>> /\ m = <<>> => AppendUnique(l, m) = <<>>
<1> DEFINE w == Without(m, Range(l))
<1>1. w \in Lists(n) /\ Range(w) = Range(m) \ Range(l) /\ (m = <<>> => w = <<>>)
  BY WithoutFits
<1> HIDE DEF w
<1>2. Range(l) \cap Range(w) = {}
  BY <1>1
<1>3. l \o w \in Lists(n) /\ (l = <<>> /\ w = <<>> => l \o w = <<>>)
  BY <1>1, <1>2, JoinedFits
<1>4. QED BY <1>1, <1>3 DEF AppendUnique, w

LEMMA OnTopFits ==
    ASSUME NEW n \in Nat, NEW l \in Lists(n), NEW r \in 1 .. n
    PROVE  <<r>> \o Without(l, {r}) \in Lists(n)
<1> DEFINE w == Without(l, {r})
<1>1. w \in Lists(n) /\ Range(w) = Range(l) \ {r}
  BY WithoutFits
<1> HIDE DEF w
<1>2. <<r>> \in Lists(n) /\ Range(<<r>>) = {r}
  <2>1. <<r>> \in Seq(1 .. n)
    OBVIOUS
  <2>2. QED BY <2>1 DEF Lists, IsInjective, Range
<1>3. Range(<<r>>) \cap Range(w) = {}
  BY <1>1, <1>2
<1>4. QED BY <1>1, <1>2, <1>3, JoinedFits DEF w

(* A page of the rows of the server.                                       *)
LEMMA PageFits ==
    ASSUME NEW n \in Nat, present \subseteq 1 .. n, PageSize \in Nat,
           NEW user, NEW query, NEW cursor
    PROVE  /\ Page(user, query, cursor) \in Lists(n)
           /\ user # owner => Page(user, query, cursor) = <<>>
           /\ Contains(Page(user, query, cursor), Focus) => Focus \in present
<1> DEFINE S == {r \in OwnRows(user) : /\ Matches(r, query)
                                       /\ cursor.row # 0 => r < cursor.row}
           f == Newest(S)
           k == IF Len(f) < PageSize THEN Len(f) ELSE PageSize
           p == SubSeq(f, 1, k)
<1>1. S \subseteq present /\ S \subseteq 1 .. n /\ S \subseteq Nat
  <2>1. S \subseteq OwnRows(user) /\ OwnRows(user) \subseteq present
    BY DEF OwnRows
  <2>2. 1 .. n \subseteq Nat
    OBVIOUS
  <2>3. QED BY <2>1, <2>2
<1>2. IsFiniteSet(S)
  <2>1. IsFiniteSet(1 .. n)
    BY FS_Interval
  <2>2. QED BY <1>1, <2>1, FS_Subset, S \in SUBSET (1 .. n)
<1>3. user # owner => S = {}
  BY DEF OwnRows
<1>4. p = Page(user, query, cursor)
  BY DEF Page, Found
<1>5. /\ f \in Seq(S) /\ Len(f) = Cardinality(S)
      /\ \A i, j \in 1 .. Cardinality(S) : i < j => f[i] > f[j]
  BY <1>1, <1>2, NewestFirst
<1> HIDE DEF S, f
<1>6. Len(f) \in Nat /\ k \in Nat /\ k <= Len(f)
  BY <1>5
<1> HIDE DEF k
<1>7. p = [i \in 1 .. k |-> f[i]]
  BY <1>5, <1>6
<1>8. \A i \in 1 .. k : f[i] \in S
  BY <1>5, <1>6
<1> HIDE DEF p
<1>9. p \in Seq(1 .. n)
  <2>1. p \in [1 .. k -> 1 .. n]
    BY <1>1, <1>7, <1>8
  <2>2. QED BY <1>6, <2>1
<1>10. IsInjective(p)
  <2>1. SUFFICES ASSUME NEW i \in 1 .. k, NEW j \in 1 .. k, p[i] = p[j] PROVE i = j
    BY <1>7 DEF IsInjective
  <2>2. f[i] = f[j] /\ f[i] \in Nat
    BY <1>1, <1>7, <1>8, <2>1
  <2>3. ~(f[i] > f[j]) /\ ~(f[j] > f[i])
    BY <2>2
  <2>4. QED BY <1>5, <1>6, <2>3
<1>11. S = {} => p = <<>>
  <2>1. ASSUME S = {} PROVE k = 0
    <3>1. k # 0 => 1 \in 1 .. k
      BY <1>6
    <3>2. QED BY <1>8, <2>1, <3>1
  <2>2. QED BY <1>7, <2>1
<1>12. Contains(p, Focus) => Focus \in present
  <2>1. \A i \in 1 .. k : p[i] \in present
    BY <1>1, <1>7, <1>8
  <2>2. DOMAIN p = 1 .. k /\ Len(p) = k
    BY <1>6, <1>7
  <2>3. QED BY <2>1, <2>2 DEF Contains
<1>13. QED BY <1>3, <1>4, <1>9, <1>10, <1>11, <1>12 DEF Lists

LEMMA ClientsGrow ==
    ASSUME NEW n \in Nat
    PROVE  Clients(n) \subseteq Clients(n + 1)
<1>1. Lists(n) \subseteq Lists(n + 1)
  BY ListsGrow
<1>2. HomeRequests(n) \subseteq HomeRequests(n + 1)
  BY <1>1 DEF HomeRequests
<1>3. PageRequests(n) \subseteq PageRequests(n + 1)
  BY <1>1 DEF PageRequests
<1>4. Saves(n) \subseteq Saves(n + 1)
  BY DEF Saves
<1>5. QED BY <1>1, <1>2, <1>3, <1>4 DEF Clients

-----------------------------------------------------------------------------
(* The invariant of types: what is in the state, that only owner has       *)
(* something of the article, and that a starting app has no session.       *)
Strays == {"removal", "save", "retry", "variant"} \cup ReadStatus
Sessions == [boot : {"ready", "restoring", "failed"}, token : Users \cup {None}]

LibraryTyped ==
    /\ row \in Rows
    /\ saved \in Nat /\ saved <= MaxRow /\ present \subseteq 1 .. saved
    /\ Focus <= saved
    /\ client \in Clients(saved)
    /\ session \in Sessions
    /\ strays \subseteq Strays
    /\ left \in [Uses -> Nat]
    /\ seen \in [mixed : BOOLEAN, late : BOOLEAN]
    /\ session.boot # "ready" => client.account = None
    /\ client.account # owner => Empty(client)

(* How a step moves the hook: it hears at most one answer, or one of its   *)
(* requests is served, or a session begins.                                *)
Items(r) == {ListItem(r), RowItem(r), DetailItem(r)}

Heard(c, d) ==
    /\ d.account = c.account /\ (c.removed => d.removed)
    /\ Marks(d) \subseteq Marks(c)
    /\ \/ Alike(c.thread, d.thread)
       \/ \E x \in Marks(c) : /\ Known(x) /\ ~c.removed
                              /\ Alike(Merge(c.thread, x), d.thread)
       \/ \E x \in Marks(c) :
             /\ Known(c.thread)
             /\ Alike(Merge(c.thread, StatusItem(c.thread, x)), d.thread)

Served(c, d, r) ==
    /\ d.account = c.account /\ d.removed = c.removed /\ d.thread = c.thread
    /\ Marks(d) \subseteq Marks(c) \cup Items(r)

Begun(c, d) ==
    /\ Empty(d) /\ Marks(d) = {NoThread} /\ d.retryKey = None /\ ~d.removed
    /\ d.intent = NoIntent /\ d.pages = {} /\ d.cursor = NoCursor
    /\ c.account = d.account => ~Known(c.thread)

(* How it moves the row.                                                   *)
RowMoves(r, s) ==
    \/ s.gen = r.gen /\ s.res = r.res /\ s.phase = r.phase /\ s.at = r.at
    \/ /\ s.at > r.at /\ s.gen >= r.gen
       /\ s.res = r.res \/ (s.res = s.gen /\ IsProcessing(r))
       /\ s.gen = r.gen /\ ~IsProcessing(r) => s.phase = r.phase

RetryKept ==
    /\ client'.retry = client.retry /\ client'.retryKey = client.retryKey
    /\ row'.gen = row.gen

Outcome ==
    /\ LibraryTyped'
    /\ RowMoves(row, row')
    /\ Focus \in present' => Focus \in present
    /\ seen.late => seen'.late
    /\ \/ Heard(client, client') \/ Served(client, client', row')
       \/ Begun(client, client')
    /\ \/ RetryKept \/ Begun(client, client')
       \/ ServeRetry \/ HearRetry \/ LoseRetry \/ RetrySummary \/ ServeStray

LEMMA QuietIsHeard ==
    ASSUME NEW c, NEW d, Quiet(c, d)
    PROVE  Heard(c, d)
  BY DEF Quiet, Heard

LEMMA HeardThenQuiet ==
    ASSUME NEW b, NEW c, NEW d, Heard(b, c), Quiet(c, d)
    PROVE  Heard(b, d)
<1>1. /\ d.account = b.account /\ (b.removed => d.removed)
      /\ Marks(d) \subseteq Marks(b)
  BY DEF Heard, Quiet
<1>2. \A t : Alike(t, c.thread) => Alike(t, d.thread)
  BY DEF Quiet, Alike
<1>3. QED BY <1>1, <1>2 DEF Heard

(* The step of the hook alone.                                             *)
HookOnly ==
    /\ UNCHANGED <<row, present, saved, session>>
    /\ strays' \subseteq Strays
    /\ left' \in [Uses -> Nat]
    /\ seen' \in [mixed : BOOLEAN, late : BOOLEAN] /\ (seen.late => seen'.late)

LEMMA HookOutcome ==
    ASSUME LibraryTyped, HookOnly,
           client' \in Clients(saved), Heard(client, client'),
           client.account # owner => Empty(client'),
           \/ client'.retry = client.retry /\ client'.retryKey = client.retryKey
           \/ HearRetry \/ LoseRetry \/ RetrySummary
    PROVE  Outcome
<1>1. client'.account = client.account
  BY DEF Heard
<1>2. LibraryTyped'
  BY <1>1 DEF LibraryTyped, HookOnly
<1>3. RowMoves(row, row') /\ (Focus \in present' => Focus \in present)
      /\ row'.gen = row.gen
  BY DEF HookOnly, RowMoves
<1>4. QED BY <1>2, <1>3 DEF Outcome, RetryKept, HookOnly

LEMMA QuietOutcome ==
    ASSUME LibraryTyped, HookOnly,
           client' \in Clients(saved), Quiet(client, client'),
           client.account # owner => Empty(client')
    PROVE  Outcome
  BY QuietIsHeard, HookOutcome DEF Quiet

LEMMA ListOutcome ==
    ASSUME LibraryTyped, HookOnly, ListStep(saved, client, client')
    PROVE  Outcome
  BY QuietOutcome DEF ListStep, LibraryTyped

LEMMA Frames ==
    ASSUME LibraryTyped
    PROVE  /\ UNCHANGED <<server, session, strays, left, seen>> => HookOnly
           /\ \A k \in Uses : /\ Spend(k) => left' \in [Uses -> Nat]
                              /\ Tap(k) => left' \in [Uses -> Nat]
                              /\ Spend(k) /\ Quietly => HookOnly
                              /\ Tap(k) /\ Quietly => HookOnly
<1>1. ASSUME NEW k \in Uses, Spend(k) PROVE left' \in [Uses -> Nat]
  BY <1>1 DEF LibraryTyped, Spend
<1>2. QED BY <1>1 DEF Tap, Quietly, HookOnly, server, LibraryTyped

LEMMA UsesNamed ==
    /\ "read" \in Uses /\ "make" \in Uses /\ "remove" \in Uses /\ "save" \in Uses
    /\ "list" \in Uses /\ "session" \in Uses /\ "fault" \in Uses
  BY DEF Uses

-----------------------------------------------------------------------------
(* The server.                                                             *)

(* The step of the server that touches the row and one request.            *)
LEMMA ServedOutcome ==
    ASSUME LibraryTyped, UNCHANGED <<saved, session, strays, left, seen>>,
           present' \subseteq present,
           row' \in Rows, RowMoves(row, row'),
           client' \in Clients(saved), Served(client, client', row'),
           client.account # owner => Empty(client'),
           \/ /\ client'.retry = client.retry /\ client'.retryKey = client.retryKey
              /\ row'.gen = row.gen
           \/ ServeRetry
    PROVE  Outcome
<1>1. client'.account = client.account
  BY DEF Served
<1>2. LibraryTyped'
  BY <1>1 DEF LibraryTyped
<1>3. QED BY <1>2 DEF Outcome, RetryKept

LEMMA SummarizeStep ==
    ASSUME LibraryTyped, NEW phase \in {"done", "failed"}, Summarize(phase)
    PROVE  Outcome
<1>1. row \in Rows
  BY DEF LibraryTyped
<1>2. /\ row' = [row EXCEPT !.phase = phase, !.at = row.at + 1,
                            !.res = IF phase = "done" THEN row.gen ELSE row.res]
      /\ IsProcessing(row)
      /\ UNCHANGED <<present, saved, client, session, strays, left, seen>>
  BY DEF Summarize
<1>3. row.gen \in Documents
  BY <1>1, ItemDefaults DEF Rows
<1>4. row' \in Rows
  <2>1. row.at + 1 \in Nat /\ phase \in Phases
        /\ (IF phase = "done" THEN row.gen ELSE row.res) \in Documents
    BY <1>1, <1>3 DEF Rows, Phases
  <2>2. QED BY <1>1, <1>2, <2>1 DEF Rows
<1>5. RowMoves(row, row')
  BY <1>1, <1>2 DEF Rows, RowMoves, Generations
<1>6. row'.gen = row.gen
  BY <1>1, <1>2 DEF Rows
<1>7. client' \in Clients(saved) /\ (client.account # owner => Empty(client'))
  BY <1>2 DEF LibraryTyped
<1>8. Served(client, client', row')
  BY <1>2 DEF Served
<1>9. QED BY <1>2, <1>4, <1>5, <1>6, <1>7, <1>8, ServedOutcome

LEMMA FinishVariantStep ==
    ASSUME LibraryTyped, FinishVariant
    PROVE  Outcome
<1>1. row \in Rows /\ row.variant \in Variants
  BY DEF LibraryTyped, Rows
<1>2. /\ row' = [row EXCEPT !.variant = [row.variant EXCEPT !.state = "done"]]
      /\ row.variant.state = "pending"
      /\ UNCHANGED <<present, saved, client, session, strays, left, seen>>
  BY DEF FinishVariant
<1>3. [row.variant EXCEPT !.state = "done"] \in Variants
  BY <1>1, <1>2 DEF Variants, NoVariant
<1>4. row' \in Rows
  BY <1>1, <1>2, <1>3 DEF Rows
<1>5. row'.gen = row.gen /\ RowMoves(row, row')
  BY <1>1, <1>2 DEF Rows, RowMoves
<1>6. client' \in Clients(saved) /\ (client.account # owner => Empty(client'))
  BY <1>2 DEF LibraryTyped
<1>7. Served(client, client', row')
  BY <1>2 DEF Served
<1>8. QED BY <1>2, <1>4, <1>5, <1>6, <1>7, ServedOutcome

(* The item in a page is of the row, and of none for another account.      *)
LEMMA PageItem ==
    ASSUME LibraryTyped, NEW user, NEW query, NEW cursor
    PROVE  LET rows == Page(user, query, cursor)
           IN  /\ rows \in Lists(saved)
               /\ ItemIn(rows) \in Threads
               /\ ItemIn(rows) \in Items(row) \cup {NoThread}
               /\ user # owner => rows = <<>> /\ ItemIn(rows) = NoThread
<1>1. saved \in Nat /\ present \subseteq 1 .. saved /\ row \in Rows
  BY DEF LibraryTyped
<1>2. PageSize \in Nat
  BY LibraryAssumption
<1> DEFINE rows == Page(user, query, cursor)
<1>3. rows \in Lists(saved) /\ (user # owner => rows = <<>>)
  BY <1>1, <1>2, PageFits
<1> HIDE DEF rows
<1>4. ItemIn(rows) \in {ListItem(row), NoThread}
  BY DEF ItemIn
<1>5. ListItem(row) \in Threads /\ NoThread \in Threads
  BY <1>1, RowItemsTyped, ItemDefaults
<1>6. rows = <<>> => ItemIn(rows) = NoThread
  BY DEF ItemIn, Contains
<1>7. QED BY <1>3, <1>4, <1>5, <1>6 DEF rows, Items

LEMMA ServeHomeStep ==
    ASSUME LibraryTyped, ServeHome
    PROVE  Outcome
<1>1. PICK h \in client.homes :
         /\ client' = [client EXCEPT !.homes = (@ \ {h}) \cup
               {[h EXCEPT !.on = "ok",
                          !.rows = Page(client.account, "all", NoCursor),
                          !.item = ItemIn(Page(client.account, "all", NoCursor))]}]
         /\ UNCHANGED <<row, present, saved, session, strays, left, seen>>
  BY DEF ServeHome, server
<1> DEFINE rows == Page(client.account, "all", NoCursor)
           item == ItemIn(rows)
           g == [h EXCEPT !.on = "ok", !.rows = rows, !.item = item]
           hs == (client.homes \ {h}) \cup {g}
<1>2. /\ rows \in Lists(saved) /\ item \in Threads
      /\ item \in Items(row) \cup {NoThread}
      /\ client.account # owner => rows = <<>> /\ item = NoThread
  BY PageItem
<1>3. saved \in Nat /\ client \in Clients(saved) /\ row \in Rows
      /\ (client.account # owner => Empty(client))
  BY DEF LibraryTyped
<1>4. client' = [client EXCEPT !.homes = hs]
  BY <1>1
<1> HIDE DEF rows, item
<1>5. h \in HomeRequests(saved)
  BY <1>3, ClientParts
<1>6. g \in HomeRequests(saved) /\ g.item = item /\ g.rows = rows
  BY <1>2, <1>5 DEF HomeRequests
<1> HIDE DEF g
<1>7. /\ hs \in SUBSET HomeRequests(saved)
      /\ \A x \in hs : x \in client.homes \/ x = g
  <2>1. client.homes \in SUBSET HomeRequests(saved)
    BY <1>3, ClientParts
  <2>2. QED BY <1>6, <2>1
<1> HIDE DEF hs
<1>8. client' \in Clients(saved)
  BY <1>3, <1>4, <1>7 DEF Clients
<1>9. Served(client, client', row)
  <2>1. NoThread \in Marks(client) /\ \A x \in client.homes : x.item \in Marks(client)
    BY DEF Marks
  <2>2. \A x \in hs : x.item \in Marks(client) \cup Items(row)
    BY <1>2, <1>6, <1>7, <2>1
  <2>3. QED BY <1>3, <1>4, <2>2 DEF Clients, Served, Marks
<1>10. ASSUME client.account # owner PROVE Empty(client')
  <2>1. \A x \in hs : x.rows = <<>> /\ x.item = NoThread
    BY <1>2, <1>3, <1>6, <1>7, <1>10 DEF Empty
  <2>2. QED BY <1>3, <1>4, <1>10, <2>1 DEF Clients, Empty
<1>11. client'.retry = client.retry /\ client'.retryKey = client.retryKey
  BY <1>3, <1>4 DEF Clients
<1>12. RowMoves(row, row') /\ row' = row
  BY <1>1 DEF RowMoves
<1>13. QED BY <1>1, <1>3, <1>8, <1>9, <1>10, <1>11, <1>12, ServedOutcome

LEMMA CursorFits ==
    ASSUME LibraryTyped, NEW user, NEW query \in Filters, NEW cursor
    PROVE  NextCursor(user, query, cursor) \in Cursors
<1>1. saved \in Nat /\ present \subseteq 1 .. saved
  BY DEF LibraryTyped
<1>2. PageSize \in Nat \ {0}
  BY LibraryAssumption
<1> DEFINE f == Found(user, query, cursor)
           p == Page(user, query, cursor)
<1>3. p \in Seq(1 .. saved)
  BY <1>1, <1>2, PageFits DEF Lists
<1>4. ASSUME Len(f) > PageSize PROVE Len(p) = PageSize
  <2> DEFINE S == {r \in OwnRows(user) : /\ Matches(r, query)
                                         /\ cursor.row # 0 => r < cursor.row}
  <2>1. S \subseteq 1 .. saved /\ IsFiniteSet(1 .. saved) /\ 1 .. saved \subseteq Nat
    <3>1. OwnRows(user) \subseteq present
      BY DEF OwnRows
    <3>2. S \subseteq OwnRows(user)
      OBVIOUS
    <3>3. IsFiniteSet(1 .. saved) /\ 1 .. saved \subseteq Nat
      BY <1>1, FS_Interval
    <3>4. QED BY <1>1, <3>1, <3>2, <3>3
  <2>2. IsFiniteSet(S) /\ S \subseteq Nat
    BY <2>1, FS_Subset, S \in SUBSET (1 .. saved)
  <2>3. f = Newest(S)
    BY DEF Found
  <2> HIDE DEF S, f
  <2>4. f \in Seq(S)
    BY <2>2, <2>3, NewestFirst
  <2>5. p = SubSeq(f, 1, PageSize)
    BY <1>2, <1>4 DEF Page, f
  <2>6. QED BY <1>2, <1>4, <2>4, <2>5
<1> HIDE DEF f, p
<1>5. ASSUME Len(f) > PageSize PROVE p[PageSize] \in Nat
  <2>1. PageSize \in 1 .. Len(p)
    BY <1>2, <1>4, <1>5
  <2>2. \A i \in 1 .. Len(p) : p[i] \in 1 .. saved
    BY <1>3, ElementOfSeq
  <2>3. p[PageSize] \in 1 .. saved
    BY <2>1, <2>2
  <2>4. 1 .. saved \subseteq Nat
    BY <1>1
  <2>5. QED BY <2>3, <2>4
<1>6. NextCursor(user, query, cursor) =
         IF Len(f) > PageSize THEN [row |-> p[PageSize], query |-> query] ELSE NoCursor
  BY DEF NextCursor, f, p
<1>7. QED BY <1>5, <1>6, ItemDefaults DEF Cursors

LEMMA ServePageStep ==
    ASSUME LibraryTyped, ServePage
    PROVE  Outcome
<1>1. PICK p \in client.pages :
         LET rows == Page(client.account, p.query, p.cursor)
             answer == IF p.cursor # NoCursor /\ p.cursor.query # p.query
                       THEN [p EXCEPT !.on = "refused"]
                       ELSE [p EXCEPT !.on = "ok", !.rows = rows,
                                      !.item = ItemIn(rows),
                                      !.next = NextCursor(client.account, p.query,
                                                          p.cursor)]
         IN  /\ client' = [client EXCEPT !.pages = (@ \ {p}) \cup {answer}]
             /\ UNCHANGED <<row, present, saved, session, strays, left, seen>>
  BY DEF ServePage, server
<1> DEFINE rows == Page(client.account, p.query, p.cursor)
           item == ItemIn(rows)
           next == NextCursor(client.account, p.query, p.cursor)
           refused == [p EXCEPT !.on = "refused"]
           given == [p EXCEPT !.on = "ok", !.rows = rows, !.item = item, !.next = next]
           g == IF p.cursor # NoCursor /\ p.cursor.query # p.query
                THEN refused ELSE given
           ps == (client.pages \ {p}) \cup {g}
<1>2. saved \in Nat /\ client \in Clients(saved) /\ row \in Rows
      /\ (client.account # owner => Empty(client))
  BY DEF LibraryTyped
<1>3. p \in PageRequests(saved)
  BY <1>2, ClientParts
<1>4. /\ rows \in Lists(saved) /\ item \in Threads
      /\ item \in Items(row) \cup {NoThread}
      /\ client.account # owner => rows = <<>> /\ item = NoThread
  BY PageItem
<1>5. next \in Cursors
  BY <1>3, CursorFits DEF PageRequests
<1>6. client' = [client EXCEPT !.pages = ps]
  BY <1>1
<1> HIDE DEF rows, item, next
<1>7. /\ refused \in PageRequests(saved) /\ refused.item = p.item
      /\ refused.rows = p.rows
      /\ given \in PageRequests(saved) /\ given.item = item /\ given.rows = rows
  BY <1>3, <1>4, <1>5 DEF PageRequests
<1>8. /\ g \in PageRequests(saved)
      /\ \/ g.item = p.item /\ g.rows = p.rows
         \/ g.item = item /\ g.rows = rows
  BY <1>7
<1> HIDE DEF g
<1>9. /\ ps \in SUBSET PageRequests(saved)
      /\ \A x \in ps : x \in client.pages \/ x = g
  <2>1. client.pages \in SUBSET PageRequests(saved)
    BY <1>2, ClientParts
  <2>2. QED BY <1>8, <2>1
<1> HIDE DEF ps
<1>10. client' \in Clients(saved)
  BY <1>2, <1>6, <1>9 DEF Clients
<1>11. Served(client, client', row)
  <2>1. NoThread \in Marks(client) /\ \A x \in client.pages : x.item \in Marks(client)
    BY DEF Marks
  <2>2. \A x \in ps : x.item \in Marks(client) \cup Items(row)
    BY <1>4, <1>8, <1>9, <2>1
  <2>3. QED BY <1>2, <1>6, <2>2 DEF Clients, Served, Marks
<1>12. ASSUME client.account # owner PROVE Empty(client')
  <2>1. \A x \in ps : x.rows = <<>> /\ x.item = NoThread
    BY <1>2, <1>4, <1>8, <1>9, <1>12 DEF Empty
  <2>2. QED BY <1>2, <1>6, <1>12, <2>1 DEF Clients, Empty
<1>13. client'.retry = client.retry /\ client'.retryKey = client.retryKey
  BY <1>2, <1>6 DEF Clients
<1>14. RowMoves(row, row') /\ row' = row
  BY <1>1 DEF RowMoves
<1>15. QED BY <1>1, <1>2, <1>10, <1>11, <1>12, <1>13, <1>14, ServedOutcome

LEMMA ServeDetailStep ==
    ASSUME LibraryTyped, ServeDetail
    PROVE  Outcome
<1>1. PICK d \in client.details :
         /\ client' = [client EXCEPT !.details = (@ \ {d}) \cup
                         {IF Exists
                          THEN [d EXCEPT !.on = "ok", !.item = DetailItem(row)]
                          ELSE [d EXCEPT !.on = "missing"]}]
         /\ UNCHANGED <<row, present, saved, session, strays, left, seen>>
  BY DEF ServeDetail, server
<1> DEFINE ok == [d EXCEPT !.on = "ok", !.item = DetailItem(row)]
           none == [d EXCEPT !.on = "missing"]
           g == IF Exists THEN ok ELSE none
           ds == (client.details \ {d}) \cup {g}
<1>2. saved \in Nat /\ client \in Clients(saved) /\ row \in Rows
      /\ (client.account # owner => Empty(client))
  BY DEF LibraryTyped
<1>3. d \in DetailRequests /\ DetailItem(row) \in Threads
  BY <1>2, ClientParts, RowItemsTyped
<1>4. client' = [client EXCEPT !.details = ds]
  BY <1>1
<1>5. /\ ok \in DetailRequests /\ ok.item = DetailItem(row)
      /\ none \in DetailRequests /\ none.item = d.item
  BY <1>3 DEF DetailRequests
<1>6. g \in DetailRequests /\ g.item \in {DetailItem(row), d.item}
  BY <1>5
<1> HIDE DEF g
<1>7. /\ ds \in SUBSET DetailRequests
      /\ \A x \in ds : x \in client.details \/ x = g
  <2>1. client.details \in SUBSET DetailRequests
    BY <1>2, ClientParts
  <2>2. QED BY <1>6, <2>1
<1> HIDE DEF ds
<1>8. client' \in Clients(saved)
  BY <1>2, <1>4, <1>7 DEF Clients
<1>9. Served(client, client', row)
  <2>1. \A x \in client.details : x.item \in Marks(client)
    BY DEF Marks
  <2>2. \A x \in ds : x.item \in Marks(client) \cup Items(row)
    BY <1>6, <1>7, <2>1 DEF Items
  <2>3. QED BY <1>2, <1>4, <2>2 DEF Clients, Served, Marks
<1>10. client.account = owner
  BY <1>2 DEF Empty
<1>11. client'.retry = client.retry /\ client'.retryKey = client.retryKey
  BY <1>2, <1>4 DEF Clients
<1>12. RowMoves(row, row') /\ row' = row
  BY <1>1 DEF RowMoves
<1>13. QED BY <1>1, <1>2, <1>8, <1>9, <1>10, <1>11, <1>12, ServedOutcome

LEMMA ServeStatusStep ==
    ASSUME LibraryTyped, ServeStatus
    PROVE  Outcome
<1> DEFINE s == IF Exists THEN [on |-> "ok", item |-> ListItem(row)]
                ELSE [on |-> "missing", item |-> NoThread]
<1>1. /\ client' = [client EXCEPT !.status = s]
      /\ client.status.on = "sent"
      /\ UNCHANGED <<row, present, saved, session, strays, left, seen>>
  BY DEF ServeStatus, server
<1>2. saved \in Nat /\ client \in Clients(saved) /\ row \in Rows
      /\ (client.account # owner => Empty(client))
  BY DEF LibraryTyped
<1>3. s \in Requests /\ s.item \in Items(row) \cup {NoThread}
  BY <1>2, RowItemsTyped, ItemDefaults DEF Requests, Items
<1> HIDE DEF s
<1>4. client' \in Clients(saved)
  BY <1>1, <1>2, <1>3 DEF Clients
<1>5. Served(client, client', row)
  BY <1>1, <1>2, <1>3 DEF Clients, Served, Marks
<1>6. client.account = owner
  BY <1>1, <1>2 DEF Empty, NoRequest
<1>7. client'.retry = client.retry /\ client'.retryKey = client.retryKey
  BY <1>1, <1>2 DEF Clients
<1>8. RowMoves(row, row') /\ row' = row
  BY <1>1 DEF RowMoves
<1>9. QED BY <1>1, <1>2, <1>4, <1>5, <1>6, <1>7, <1>8, ServedOutcome

(* A row that is written, or whose summary is asked for.                   *)
LEMMA RowWritten ==
    ASSUME row \in Rows, NEW status \in ReadStatus, WriteRead(status)
    PROVE  row' \in Rows /\ RowMoves(row, row') /\ row'.gen = row.gen
<1>1. row' = [row EXCEPT !.read = status, !.at = row.at + 1]
  BY DEF WriteRead
<1>2. row.at \in Nat /\ row.at + 1 \in Nat /\ row.gen \in Nat
  <2>1. row.at \in Nat /\ row.gen \in Generations
    BY DEF Rows
  <2>2. row.gen \in Nat
    BY <2>1, ItemDefaults
  <2>3. QED BY <2>1, <2>2
<1>3. row' \in Rows
  BY <1>1, <1>2 DEF Rows
<1>4. QED BY <1>1, <1>2, <1>3 DEF Rows, RowMoves

LEMMA GenerationStarted ==
    ASSUME row \in Rows, NEW key, StartsGeneration(key), StartGeneration
    PROVE  row' \in Rows /\ RowMoves(row, row') /\ row'.gen = row.gen + 1
<1>1. row' = [row EXCEPT !.gen = row.gen + 1, !.phase = "processing", !.at = row.at + 1]
  BY DEF StartGeneration
<1>2. /\ row.at \in Nat /\ row.gen \in Generations /\ row.gen < MaxGeneration
      /\ ~IsProcessing(row)
  BY DEF Rows, StartsGeneration
<1>3. row.gen + 1 \in Generations /\ row.gen + 1 > row.gen
  BY <1>2, GenerationAssumption DEF Generations
<1>4. row' \in Rows
  <2>1. row.at + 1 \in Nat /\ "processing" \in Phases
    BY <1>2 DEF Phases
  <2>2. QED BY <1>1, <1>3, <2>1 DEF Rows
<1>5. QED BY <1>1, <1>2, <1>3, <1>4 DEF Rows, RowMoves, Generations

LEMMA VariantMade ==
    ASSUME row \in Rows, row.res # 0, MakeVariant
    PROVE  row' \in Rows /\ RowMoves(row, row') /\ row'.gen = row.gen
<1> DEFINE v == IF row.variant.src = row.res THEN row.variant
                ELSE [src |-> row.res, state |-> "pending"]
<1>1. row' = [row EXCEPT !.variant = v]
  BY DEF MakeVariant
<1>2. row.res \in Generations
  BY DEF Rows, Documents, Generations
<1>3. v \in Variants
  BY <1>2 DEF Rows, Variants
<1> HIDE DEF v
<1>4. row' \in Rows
  BY <1>1, <1>3 DEF Rows
<1>5. QED BY <1>1, <1>4 DEF Rows, RowMoves

LEMMA ServeReadStep ==
    ASSUME LibraryTyped, ServeRead
    PROVE  Outcome
<1> DEFINE w == client.writes[1]
           ok == [w EXCEPT !.on = "ok", !.item = RowItem(row')]
           none == [w EXCEPT !.on = "missing"]
           g == IF Exists THEN ok ELSE none
           ws == [client.writes EXCEPT ![1] = g]
<1>1. saved \in Nat /\ client \in Clients(saved) /\ row \in Rows
      /\ (client.account # owner => Empty(client))
  BY DEF LibraryTyped
<1>2. /\ client.writes # <<>>
      /\ UNCHANGED <<present, saved, session, strays, left, seen>>
      /\ Exists => WriteRead(w.status)
      /\ ~Exists => row' = row
      /\ client' = IF Exists
                   THEN [client EXCEPT !.writes[1].on = "ok",
                                       !.writes[1].item = RowItem(row')]
                   ELSE [client EXCEPT !.writes[1].on = "missing"]
  BY DEF ServeRead
<1>3. client.writes \in Seq(Writes) /\ w \in Writes /\ 1 \in 1 .. Len(client.writes)
  BY <1>1, <1>2, ClientParts, EmptySeq
<1>4. w.status \in ReadStatus
  BY <1>3 DEF Writes
<1>5. row' \in Rows /\ RowMoves(row, row') /\ row'.gen = row.gen
  BY <1>1, <1>2, <1>4, RowWritten DEF RowMoves
<1>6. RowItem(row') \in Threads
  BY <1>5, RowItemsTyped
<1>7. /\ ok \in Writes /\ ok.item = RowItem(row')
      /\ none \in Writes /\ none.item = w.item
  BY <1>3, <1>6 DEF Writes
<1>8. client' = [client EXCEPT !.writes = ws]
  <2>1. [client EXCEPT !.writes[1].on = "ok", !.writes[1].item = RowItem(row')]
          = [client EXCEPT !.writes = [client.writes EXCEPT ![1] = ok]]
    <3> DEFINE sent == [w EXCEPT !.on = "ok"]
               ws1 == [client.writes EXCEPT ![1] = sent]
               c1 == [client EXCEPT !.writes = ws1]
    <3>1. [client EXCEPT !.writes[1].on = "ok"] = c1
      OBVIOUS
    <3>2. [client EXCEPT !.writes[1].on = "ok", !.writes[1].item = RowItem(row')]
             = [c1 EXCEPT !.writes[1].item = RowItem(row')]
      BY <3>1
    <3>3. c1.writes = ws1 /\ ws1[1] = sent
      BY <1>1, <1>3 DEF Clients
    <3>4. [sent EXCEPT !.item = RowItem(row')] = ok
      BY <1>3 DEF Writes
    <3>5. [ws1 EXCEPT ![1] = ok] = [client.writes EXCEPT ![1] = ok]
      BY <1>3
    <3> HIDE DEF ok, sent, ws1
    <3>6. [c1 EXCEPT !.writes[1].item = RowItem(row')]
             = [c1 EXCEPT !.writes = [ws1 EXCEPT ![1] = ok]]
      BY <3>3, <3>4
    <3>7. [c1 EXCEPT !.writes = [ws1 EXCEPT ![1] = ok]]
             = [client EXCEPT !.writes = [ws1 EXCEPT ![1] = ok]]
      BY <1>1 DEF Clients
    <3>8. QED BY <3>2, <3>5, <3>6, <3>7
  <2>2. [client EXCEPT !.writes[1].on = "missing"]
          = [client EXCEPT !.writes = [client.writes EXCEPT ![1] = none]]
    BY <1>1, <1>3 DEF Clients, Writes
  <2>3. QED BY <1>2, <2>1, <2>2
<1>9. g \in Writes /\ g.item \in {w.item, RowItem(row')}
  BY <1>7
<1> HIDE DEF g
<1>10. /\ ws \in Seq(Writes) /\ Len(ws) = Len(client.writes)
       /\ \A i \in 1 .. Len(client.writes) : ws[i] = IF i = 1 THEN g ELSE client.writes[i]
  BY <1>2, <1>3, <1>9, SeqUpdate
<1> HIDE DEF ws
<1>11. client' \in Clients(saved)
  BY <1>1, <1>8, <1>10 DEF Clients
<1>12. Served(client, client', row')
  <2>1. \A i \in 1 .. Len(client.writes) : client.writes[i].item \in Marks(client)
    BY DEF Marks
  <2>2. w.item \in Marks(client)
    BY <1>3, <2>1
  <2>3. \A i \in 1 .. Len(ws) : ws[i].item \in Marks(client) \cup Items(row')
    BY <1>9, <1>10, <2>1, <2>2 DEF Items
  <2>4. QED BY <1>1, <1>8, <2>3 DEF Clients, Served, Marks
<1>13. client.account = owner
  BY <1>1, <1>2 DEF Empty
<1>14. client'.retry = client.retry /\ client'.retryKey = client.retryKey
  BY <1>1, <1>8 DEF Clients
<1>15. QED BY <1>1, <1>2, <1>5, <1>11, <1>12, <1>13, <1>14, ServedOutcome

LEMMA ServeRetryStep ==
    ASSUME LibraryTyped, ServeRetry
    PROVE  Outcome
<1>1. saved \in Nat /\ client \in Clients(saved) /\ row \in Rows
      /\ (client.account # owner => Empty(client))
  BY DEF LibraryTyped
<1>2. /\ client.retry.on = "sent"
      /\ UNCHANGED <<present, saved, session, strays, left, seen>>
  BY DEF ServeRetry
<1>3. client.account = owner
  BY <1>1, <1>2 DEF Empty, NoRequest
<1>4. row' \in Rows /\ RowMoves(row, row')
  BY <1>1, GenerationStarted DEF ServeRetry, RowMoves
<1>5. client.retry \in Requests /\ RowItem(row') \in Threads
  BY <1>1, <1>4, ClientParts, RowItemsTyped
<1>6. PICK key \in {None, "unknown", "known"}, r \in Requests :
         /\ client' = [client EXCEPT !.retryKey = key, !.retry = r]
         /\ r.item \in {RowItem(row'), client.retry.item}
  <2>1. CASE client' = [client EXCEPT !.retryKey = "known", !.retry =
                           [on |-> "ok", item |-> RowItem(row')]]
    <3>1. [on |-> "ok", item |-> RowItem(row')] \in Requests
      BY <1>5 DEF Requests
    <3>2. QED BY <2>1, <3>1
  <2>2. CASE row' = row /\ client' = [client EXCEPT !.retry =
                                         [on |-> "ok", item |-> RowItem(row)]]
    <3>1. [on |-> "ok", item |-> RowItem(row')] \in Requests
      BY <1>5 DEF Requests
    <3>2. client' = [client EXCEPT !.retryKey = client.retryKey,
                                   !.retry = [on |-> "ok", item |-> RowItem(row')]]
      BY <1>1, <2>2 DEF Clients
    <3>3. QED BY <1>1, <3>1, <3>2, ClientParts
  <2>3. CASE client' = [client EXCEPT !.retry.on = "refused"]
    <3>1. /\ [client.retry EXCEPT !.on = "refused"] \in Requests
          /\ [client.retry EXCEPT !.on = "refused"].item = client.retry.item
      BY <1>5 DEF Requests
    <3>2. client' = [client EXCEPT !.retryKey = client.retryKey,
                                   !.retry = [client.retry EXCEPT !.on = "refused"]]
      BY <1>1, <2>3 DEF Clients
    <3>3. QED BY <1>1, <3>1, <3>2, ClientParts
  <2>4. QED BY <2>1, <2>2, <2>3 DEF ServeRetry
<1>7. client' \in Clients(saved)
  BY <1>1, <1>6 DEF Clients
<1>8. Served(client, client', row')
  BY <1>1, <1>6 DEF Clients, Served, Marks, Items
<1>9. QED BY <1>2, <1>3, <1>4, <1>7, <1>8, ServedOutcome

LEMMA ServeVariantStep ==
    ASSUME LibraryTyped, ServeVariant
    PROVE  Outcome
<1>1. saved \in Nat /\ client \in Clients(saved) /\ row \in Rows
      /\ (client.account # owner => Empty(client))
  BY DEF LibraryTyped
<1>2. /\ client.variant.on = "sent"
      /\ UNCHANGED <<present, saved, session, strays, left, seen>>
  BY DEF ServeVariant
<1>3. client.account = owner
  BY <1>1, <1>2 DEF Empty, NoRequest
<1>4. row' \in Rows /\ RowMoves(row, row') /\ row'.gen = row.gen
  BY <1>1, VariantMade DEF ServeVariant, RowMoves
<1>5. client.variant \in Requests /\ DetailItem(row') \in Threads
  BY <1>1, <1>4, ClientParts, RowItemsTyped
<1>6. PICK r \in Requests :
         /\ client' = [client EXCEPT !.variant = r]
         /\ r.item \in {DetailItem(row'), client.variant.item}
  <2>1. [on |-> "ok", item |-> DetailItem(row')] \in Requests
    BY <1>5 DEF Requests
  <2>2. /\ [client.variant EXCEPT !.on = "refused"] \in Requests
        /\ [client.variant EXCEPT !.on = "refused"].item = client.variant.item
    BY <1>5 DEF Requests
  <2>3. QED BY <2>1, <2>2 DEF ServeVariant
<1>7. client' \in Clients(saved)
  BY <1>1, <1>6 DEF Clients
<1>8. Served(client, client', row')
  BY <1>1, <1>6 DEF Clients, Served, Marks, Items
<1>9. client'.retry = client.retry /\ client'.retryKey = client.retryKey
  BY <1>1, <1>6 DEF Clients
<1>10. QED BY <1>2, <1>3, <1>4, <1>7, <1>8, <1>9, ServedOutcome

(* A row that is added is not Focus.                                       *)
LEMMA RowAdded ==
    ASSUME LibraryTyped, AddRow
    PROVE  /\ saved' = saved + 1 /\ saved' \in Nat /\ saved' <= MaxRow
           /\ present' \subseteq 1 .. saved' /\ Focus <= saved'
           /\ Focus \in present' => Focus \in present
           /\ Clients(saved) \subseteq Clients(saved')
<1>1. /\ saved \in Nat /\ saved < MaxRow /\ saved' = saved + 1
      /\ present \subseteq 1 .. saved /\ present' = present \cup {saved + 1}
      /\ Focus <= saved
  BY DEF LibraryTyped, AddRow
<1>2. MaxRow \in Nat /\ Focus \in Nat
  BY LibraryAssumption, FocusAssumption
<1>3. 1 .. saved \subseteq 1 .. (saved + 1) /\ saved + 1 \in 1 .. (saved + 1)
  BY <1>1
<1>4. QED BY <1>1, <1>2, <1>3, ClientsGrow

LEMMA ServeSaveStep ==
    ASSUME LibraryTyped, ServeSave
    PROVE  Outcome
<1>1. saved \in Nat /\ client \in Clients(saved) /\ row \in Rows
      /\ present \subseteq 1 .. saved
  BY DEF LibraryTyped
<1>2. /\ client.account = owner
      /\ UNCHANGED <<row, session, strays, left, seen>>
  BY DEF ServeSave
<1>3. PICK s \in Saves(saved') :
         /\ client' = [client EXCEPT !.save = s]
         /\ s.item \in {RowItem(row), NoThread}
  <2>1. CASE AddRow /\ client' = [client EXCEPT !.save =
               [on |-> "new", row |-> saved + 1, item |-> NoThread]]
    <3>1. [on |-> "new", row |-> saved + 1, item |-> NoThread] \in Saves(saved')
      BY <1>1, <2>1, RowAdded, ItemDefaults DEF Saves
    <3>2. QED BY <2>1, <3>1
  <2>2. CASE /\ Exists /\ UNCHANGED <<present, saved>>
             /\ client' = [client EXCEPT !.save =
                   [on |-> "known", row |-> Focus, item |-> RowItem(row)]]
    <3>1. Focus \in 1 .. saved
      BY <1>1, <2>2 DEF Exists
    <3>2. [on |-> "known", row |-> Focus, item |-> RowItem(row)] \in Saves(saved')
      BY <1>1, <2>2, <3>1, RowItemsTyped DEF Saves
    <3>3. QED BY <2>2, <3>2
  <2>3. QED BY <2>1, <2>2 DEF ServeSave
<1>4. /\ saved' \in Nat /\ saved' <= MaxRow /\ present' \subseteq 1 .. saved'
      /\ Focus <= saved' /\ (Focus \in present' => Focus \in present)
      /\ Clients(saved) \subseteq Clients(saved')
  BY RowAdded DEF ServeSave, LibraryTyped
<1>5. client' \in Clients(saved')
  BY <1>1, <1>3, <1>4 DEF Clients
<1>6. Served(client, client', row')
  BY <1>1, <1>2, <1>3 DEF Clients, Served, Marks, Items
<1>7. client'.retry = client.retry /\ client'.retryKey = client.retryKey
  BY <1>1, <1>3 DEF Clients
<1>8. LibraryTyped'
  BY <1>2, <1>4, <1>5, <1>6 DEF LibraryTyped, Served
<1>9. RowMoves(row, row') /\ row'.gen = row.gen
  BY <1>2 DEF RowMoves
<1>10. QED BY <1>2, <1>4, <1>6, <1>7, <1>8, <1>9 DEF Outcome, RetryKept

LEMMA ServeRemovalStep ==
    ASSUME LibraryTyped, ServeRemoval
    PROVE  Outcome
<1> DEFINE r == [client.removal EXCEPT !.on = IF Exists THEN "ok" ELSE "missing"]
<1>1. saved \in Nat /\ client \in Clients(saved) /\ row \in Rows
      /\ (client.account # owner => Empty(client))
  BY DEF LibraryTyped
<1>2. /\ client.removal.on = "sent" /\ present' = present \ {Focus}
      /\ UNCHANGED <<row, saved, session, strays, left, seen>>
      /\ client' = [client EXCEPT !.removal = r]
  BY DEF ServeRemoval
<1>3. r \in Requests
  BY <1>1, ClientParts DEF Requests
<1> HIDE DEF r
<1>4. client' \in Clients(saved)
  BY <1>1, <1>2, <1>3 DEF Clients
<1>5. Served(client, client', row')
  BY <1>1, <1>2 DEF Clients, Served, Marks
<1>6. client.account = owner
  BY <1>1, <1>2 DEF Empty, NoRequest
<1>7. client'.retry = client.retry /\ client'.retryKey = client.retryKey
  BY <1>1, <1>2 DEF Clients
<1>8. RowMoves(row, row') /\ row' = row
  BY <1>2 DEF RowMoves
<1>9. present' \subseteq present
  BY <1>2
<1>10. QED BY <1>1, <1>2, <1>4, <1>5, <1>6, <1>7, <1>8, <1>9, ServedOutcome

LEMMA ServeStrayStep ==
    ASSUME LibraryTyped, ServeStray
    PROVE  Outcome
<1>1. /\ saved \in Nat /\ client \in Clients(saved) /\ row \in Rows
      /\ present \subseteq 1 .. saved /\ strays \subseteq Strays
      /\ saved <= MaxRow /\ Focus <= saved
  BY DEF LibraryTyped
<1>2. PICK s \in strays :
        /\ strays' = strays \ {s}
        /\ CASE s = "removal" ->
                  present' = present \ {Focus} /\ UNCHANGED <<row, saved>>
             [] s = "save" -> AddRow /\ UNCHANGED row
             [] s = "retry" -> /\ StartsGeneration(client.retryKey)
                               /\ StartGeneration
                               /\ UNCHANGED <<present, saved>>
             [] s = "variant" -> /\ Exists /\ row.res # 0
                                 /\ MakeVariant
                                 /\ UNCHANGED <<present, saved>>
             [] OTHER -> /\ Exists
                         /\ WriteRead(s)
                         /\ UNCHANGED <<present, saved>>
        /\ client' = IF s = "retry" /\ client.retryKey = "unknown"
                     THEN [client EXCEPT !.retryKey = "known"] ELSE client
        /\ seen' = [seen EXCEPT !.late = @ \/ s \in ReadStatus \cup {"retry"}]
        /\ UNCHANGED <<session, left>>
  BY DEF ServeStray
<1>3. /\ row' \in Rows /\ RowMoves(row, row')
      /\ saved' \in Nat /\ saved' <= MaxRow /\ present' \subseteq 1 .. saved'
      /\ Focus <= saved' /\ (Focus \in present' => Focus \in present)
      /\ Clients(saved) \subseteq Clients(saved')
  <2>1. RowMoves(row, row)
    BY DEF RowMoves
  <2>2. CASE s = "removal"
    BY <1>1, <1>2, <2>1, <2>2
  <2>3. CASE s = "save"
    BY <1>1, <1>2, <2>1, <2>3, RowAdded
  <2>4. CASE s = "retry"
    BY <1>1, <1>2, <2>4, GenerationStarted
  <2>5. CASE s = "variant"
    BY <1>1, <1>2, <2>5, VariantMade
  <2>6. CASE s \notin {"removal", "save", "retry", "variant"}
    <3>1. s \in ReadStatus /\ WriteRead(s) /\ UNCHANGED <<present, saved>>
      BY <1>1, <1>2, <2>6 DEF Strays
    <3>2. QED BY <1>1, <3>1, RowWritten
  <2>7. QED BY <2>2, <2>3, <2>4, <2>5, <2>6
<1>4. client' \in Clients(saved)
  BY <1>1, <1>2 DEF Clients
<1>5. /\ client'.account = client.account
      /\ Empty(client) => Empty(client')
  BY <1>1, <1>2 DEF Clients, Empty
<1>6. Served(client, client', row')
  BY <1>1, <1>2 DEF Clients, Served, Marks
<1>7. strays' \subseteq Strays /\ seen' \in [mixed : BOOLEAN, late : BOOLEAN]
      /\ (seen.late => seen'.late)
  BY <1>1, <1>2 DEF LibraryTyped
<1>8. LibraryTyped'
  BY <1>2, <1>3, <1>4, <1>5, <1>7 DEF LibraryTyped
<1>9. QED BY <1>3, <1>6, <1>7, <1>8 DEF Outcome

-----------------------------------------------------------------------------
(* Answers.                                                                *)

(* The hook without the request that is answered.                          *)
Less(c, d) ==
    /\ d.account = c.account /\ d.removed = c.removed /\ d.thread = c.thread
    /\ Marks(d) \subseteq Marks(c)

LEMMA ReceiveHeard ==
    ASSUME NEW n \in Nat, NEW c, NEW d \in Clients(n), Less(c, d),
           NEW i \in Threads, i \in Marks(c), NEW same
    PROVE  \E t \in Threads :
             /\ Receive(d, i, same) = [d EXCEPT !.thread = t]
             /\ Receive(d, i, same) \in Clients(n)
             /\ Heard(c, Receive(d, i, same))
             /\ ~Known(i) => t = d.thread
<1>1. PICK t \in Threads :
         /\ Receive(d, i, same) = [d EXCEPT !.thread = t]
         /\ Receive(d, i, same) \in Clients(n)
         /\ t # d.thread => Known(i) /\ ~d.removed /\ Alike(Merge(d.thread, i), t)
  BY ReceiveFits
<1> DEFINE e == [d EXCEPT !.thread = t]
<1>2. /\ e.account = d.account /\ e.removed = d.removed /\ e.thread = t
      /\ Marks(e) = Marks(d)
  BY DEF Clients, Marks
<1> HIDE DEF e
<1>3. t = d.thread => Alike(c.thread, t)
  BY DEF Less, Alike
<1>4. Heard(c, e)
  BY <1>1, <1>2, <1>3 DEF Less, Heard
<1>5. QED BY <1>1, <1>4 DEF e

LEMMA HearHomeStep ==
    ASSUME LibraryTyped, HearHome
    PROVE  Outcome
<1>1. PICK h \in client.homes :
         /\ h.on # "sent" /\ client' = HomeAnswer(h)
         /\ UNCHANGED <<server, session, strays, left, seen>>
  BY DEF HearHome
<1>2. saved \in Nat /\ client \in Clients(saved)
      /\ (client.account # owner => Empty(client))
  BY DEF LibraryTyped
<1> DEFINE hs == client.homes \ {h}
           rest == [client EXCEPT !.homes = hs]
           heard == Receive(rest, h.item, h.same)
           home == WithoutRemoved(heard, h.rows)
           d == [heard EXCEPT !.home = home]
<1>3. h \in HomeRequests(saved) /\ h.item \in Marks(client)
  BY <1>2, ClientParts DEF Marks
<1>4. h.item \in Threads /\ h.rows \in Lists(saved) /\ h.same \in BOOLEAN
  BY <1>3 DEF HomeRequests
<1>5. hs \in SUBSET HomeRequests(saved) /\ hs \subseteq client.homes
  BY <1>2, ClientParts
<1> HIDE DEF hs
<1>6. rest \in Clients(saved)
  BY <1>2, <1>5 DEF Clients
<1>7. Quiet(client, rest) /\ Less(client, rest)
  BY <1>2, <1>5 DEF Clients, Quiet, Less, Alike, Marks
<1>8. Empty(client) => Empty(rest) /\ ~Known(h.item) /\ h.rows = <<>>
  <2>1. Empty(client) => Empty(rest)
    BY <1>2, <1>5 DEF Clients, Empty
  <2>2. Empty(client) => ~Known(h.item) /\ h.rows = <<>>
    BY DEF Empty, Known, NoThread
  <2>3. QED BY <2>1, <2>2
<1>9. client' \in {rest, Effects(d)}
  BY <1>1 DEF HomeAnswer, hs
<1> HIDE DEF rest
<1>10. PICK t \in Threads :
          /\ heard = [rest EXCEPT !.thread = t]
          /\ heard \in Clients(saved) /\ Heard(client, heard)
          /\ ~Known(h.item) => t = rest.thread
  BY <1>2, <1>3, <1>4, <1>6, <1>7, ReceiveHeard
<1>11. heard.retry = rest.retry /\ heard.retryKey = rest.retryKey
       /\ (Empty(client) => Empty(heard))
  BY <1>6, <1>8, <1>10 DEF Clients, Empty
<1> HIDE DEF heard
<1>12. home \in Lists(saved) /\ (h.rows = <<>> => home = <<>>)
  BY <1>2, <1>4, WithoutRemovedFits
<1> HIDE DEF home
<1>13. d \in Clients(saved)
  BY <1>10, <1>12 DEF Clients
<1>14. Quiet(heard, d)
  BY <1>10 DEF Clients, Quiet, Alike, Marks
<1>15. Empty(client) => Empty(d)
  BY <1>8, <1>10, <1>11, <1>12 DEF Clients, Empty
<1> HIDE DEF d
<1>16. /\ Effects(d) \in Clients(saved) /\ Quiet(d, Effects(d))
       /\ ~d.open => Effects(d) = d
  BY <1>2, <1>13, EffectsFit
<1>17. Heard(client, Effects(d))
  BY <1>10, <1>14, <1>16, HeardThenQuiet
<1>18. Empty(client) => Empty(Effects(d))
  BY <1>15, <1>16 DEF Empty
<1>19. Effects(d).retry = client.retry /\ Effects(d).retryKey = client.retryKey
  BY <1>7, <1>11, <1>14, <1>16 DEF Quiet
<1>20. HookOnly
  BY <1>1, Frames
<1>21. CASE client' = rest
  BY <1>2, <1>6, <1>7, <1>8, <1>20, <1>21, QuietOutcome
<1>22. CASE client' = Effects(d)
  BY <1>2, <1>16, <1>17, <1>18, <1>19, <1>20, <1>22, HookOutcome
<1>23. QED BY <1>9, <1>21, <1>22

LEMMA HearPageStep ==
    ASSUME LibraryTyped, HearPage
    PROVE  Outcome
<1>1. PICK p \in client.pages :
         /\ p.on # "sent" /\ client' = PageAnswer(p)
         /\ seen' = IF p.fresh /\ ~p.more
                    THEN [seen EXCEPT !.mixed = \E q \in client.pages :
                                                   q.fresh /\ q.more]
                    ELSE seen
         /\ UNCHANGED <<server, session, strays, left>>
  BY DEF HearPage
<1>2. saved \in Nat /\ client \in Clients(saved)
      /\ (client.account # owner => Empty(client))
  BY DEF LibraryTyped
<1> DEFINE ps == client.pages \ {p}
           rest == [client EXCEPT !.pages = ps]
           ended == [rest EXCEPT !.moreBusy = FALSE]
           failed == [ended EXCEPT !.archiveError = TRUE]
           heard == Receive(ended, p.item, p.same)
           rows == WithoutRemoved(heard, p.rows)
           archive == IF p.more THEN AppendUnique(heard.archive, rows) ELSE rows
           d == [heard EXCEPT !.archive = archive, !.cursor = p.next,
                              !.archiveError = FALSE]
<1>3. p \in PageRequests(saved) /\ p.item \in Marks(client)
  BY <1>2, ClientParts DEF Marks
<1>4. /\ p.item \in Threads /\ p.rows \in Lists(saved) /\ p.same \in BOOLEAN
      /\ p.next \in Cursors
  BY <1>3 DEF PageRequests
<1>5. ps \in SUBSET PageRequests(saved) /\ ps \subseteq client.pages
  BY <1>2, ClientParts
<1> HIDE DEF ps
<1>6. rest \in Clients(saved) /\ ended \in Clients(saved) /\ failed \in Clients(saved)
  BY <1>2, <1>5 DEF Clients
<1>7. Quiet(client, rest) /\ Quiet(client, ended) /\ Less(client, ended)
      /\ Quiet(client, failed)
  BY <1>2, <1>5 DEF Clients, Quiet, Less, Alike, Marks
<1>8. Empty(client) => /\ Empty(rest) /\ Empty(ended) /\ Empty(failed)
                       /\ ~Known(p.item) /\ p.rows = <<>>
  <2>1. Empty(client) => Empty(rest) /\ Empty(ended) /\ Empty(failed)
    BY <1>2, <1>5 DEF Clients, Empty
  <2>2. Empty(client) => ~Known(p.item) /\ p.rows = <<>>
    BY DEF Empty, Known, NoThread
  <2>3. QED BY <2>1, <2>2
<1>9. client' \in {rest, failed, Effects(d)}
  BY <1>1 DEF PageAnswer, ps
<1> HIDE DEF rest, ended, failed
<1>10. PICK t \in Threads :
          /\ heard = [ended EXCEPT !.thread = t]
          /\ heard \in Clients(saved) /\ Heard(client, heard)
          /\ ~Known(p.item) => t = ended.thread
  BY <1>2, <1>3, <1>4, <1>6, <1>7, ReceiveHeard
<1>11. heard.retry = ended.retry /\ heard.retryKey = ended.retryKey
       /\ (Empty(client) => Empty(heard))
  BY <1>6, <1>8, <1>10 DEF Clients, Empty
<1> HIDE DEF heard
<1>12. rows \in Lists(saved) /\ (p.rows = <<>> => rows = <<>>)
  BY <1>2, <1>4, WithoutRemovedFits
<1> HIDE DEF rows
<1>13. archive \in Lists(saved) /\ (Empty(client) => archive = <<>>)
  <2>1. heard.archive \in Lists(saved)
    BY <1>2, <1>10, ClientParts
  <2>2. /\ AppendUnique(heard.archive, rows) \in Lists(saved)
        /\ heard.archive = <<>> /\ rows = <<>>
             => AppendUnique(heard.archive, rows) = <<>>
    BY <1>2, <1>12, <2>1, AppendUniqueFits
  <2>3. Empty(client) => heard.archive = <<>> /\ rows = <<>>
    BY <1>8, <1>11, <1>12 DEF Empty
  <2>4. QED BY <1>12, <2>2, <2>3
<1> HIDE DEF archive
<1>14. d \in Clients(saved)
  <2>1. heard \in Clients(saved)
    BY <1>10
  <2>2. QED BY <1>4, <1>13, <2>1 DEF Clients
<1>15. Quiet(heard, d)
  BY <1>10 DEF Clients, Quiet, Alike, Marks
<1>16. Empty(client) => Empty(d)
  BY <1>10, <1>11, <1>13 DEF Clients, Empty
<1> HIDE DEF d
<1>17. /\ Effects(d) \in Clients(saved) /\ Quiet(d, Effects(d))
       /\ ~d.open => Effects(d) = d
  BY <1>2, <1>14, EffectsFit
<1>18. Heard(client, Effects(d))
  BY <1>10, <1>15, <1>17, HeardThenQuiet
<1>19. Empty(client) => Empty(Effects(d))
  BY <1>16, <1>17 DEF Empty
<1>20. Effects(d).retry = client.retry /\ Effects(d).retryKey = client.retryKey
  BY <1>7, <1>11, <1>15, <1>17 DEF Quiet
<1>21. HookOnly
  BY <1>1 DEF HookOnly, server, LibraryTyped
<1>22. CASE client' = rest \/ client' = failed
  BY <1>2, <1>6, <1>7, <1>8, <1>21, <1>22, QuietOutcome
<1>23. CASE client' = Effects(d)
  BY <1>2, <1>17, <1>18, <1>19, <1>20, <1>21, <1>23, HookOutcome
<1>24. QED BY <1>9, <1>22, <1>23

LEMMA HearDetailStep ==
    ASSUME LibraryTyped, HearDetail
    PROVE  Outcome
<1>1. PICK d \in client.details :
         /\ client' = DetailAnswer(d)
         /\ UNCHANGED <<server, session, strays, left, seen>>
  BY DEF HearDetail
<1>2. saved \in Nat /\ client \in Clients(saved) /\ client.account = owner
  BY <1>1 DEF LibraryTyped, Empty
<1> DEFINE ds == client.details \ {d}
           rest == [client EXCEPT !.details = ds]
           heard == Receive(rest, d.item, d.same)
           err == heard.detailError /\ ~client.open
           e == [heard EXCEPT !.detailError = err]
           gone == client.removed \/ d.on = "missing"
           bad == client.detailError \/ client.open
           lost == [rest EXCEPT !.removed = gone, !.detailError = bad]
<1>3. d \in DetailRequests /\ d.item \in Marks(client)
  BY <1>2, ClientParts DEF Marks
<1>4. d.item \in Threads /\ d.same \in BOOLEAN
  BY <1>3 DEF DetailRequests
<1>5. ds \in SUBSET DetailRequests /\ ds \subseteq client.details
  BY <1>2, ClientParts
<1> HIDE DEF ds
<1>6. rest \in Clients(saved)
  BY <1>2, <1>5 DEF Clients
<1>7. Less(client, rest) /\ rest.retry = client.retry /\ rest.retryKey = client.retryKey
  BY <1>2, <1>5 DEF Clients, Less, Marks
<1>8. client' \in {lost, Effects(e)}
  <2>1. rest.removed = client.removed /\ rest.detailError = client.detailError
    BY <1>2 DEF Clients
  <2>2. QED BY <1>1, <2>1 DEF DetailAnswer, ds
<1>9. client.removed \in BOOLEAN /\ client.detailError \in BOOLEAN /\ client.open \in BOOLEAN
  BY <1>2, ClientParts
<1>10. gone \in BOOLEAN /\ bad \in BOOLEAN /\ (client.removed => gone)
  BY <1>9
<1> HIDE DEF rest, gone, bad
<1>11. lost \in Clients(saved)
  BY <1>6, <1>10 DEF Clients
<1>12. /\ lost.account = rest.account /\ lost.removed = gone
       /\ lost.thread = rest.thread /\ Marks(lost) = Marks(rest)
       /\ lost.retry = rest.retry /\ lost.retryKey = rest.retryKey
  BY <1>6 DEF Clients, Marks
<1> HIDE DEF lost
<1>13. Heard(client, lost)
  BY <1>7, <1>10, <1>12 DEF Less, Heard, Alike
<1>14. PICK t \in Threads :
          /\ heard = [rest EXCEPT !.thread = t]
          /\ heard \in Clients(saved) /\ Heard(client, heard)
  BY <1>2, <1>3, <1>4, <1>6, <1>7, ReceiveHeard
<1>15. heard.retry = rest.retry /\ heard.retryKey = rest.retryKey
       /\ heard.detailError \in BOOLEAN
  BY <1>6, <1>14 DEF Clients
<1> HIDE DEF heard
<1>16. err \in BOOLEAN
  BY <1>9, <1>15
<1> HIDE DEF err
<1>17. e \in Clients(saved) /\ Quiet(heard, e)
  <2>1. heard \in Clients(saved)
    BY <1>14
  <2>2. e \in Clients(saved)
    BY <1>16, <2>1 DEF Clients
  <2>3. Quiet(heard, e)
    BY <2>1 DEF Clients, Quiet, Alike, Marks
  <2>4. QED BY <2>2, <2>3
<1> HIDE DEF e
<1>18. Effects(e) \in Clients(saved) /\ Quiet(e, Effects(e))
  BY <1>2, <1>17, EffectsFit
<1>19. Heard(client, Effects(e))
  BY <1>14, <1>17, <1>18, HeardThenQuiet
<1>20. Effects(e).retry = client.retry /\ Effects(e).retryKey = client.retryKey
  BY <1>7, <1>15, <1>17, <1>18 DEF Quiet
<1>21. HookOnly
  BY <1>1, Frames
<1>22. CASE client' = lost
  BY <1>2, <1>7, <1>11, <1>12, <1>13, <1>21, <1>22, HookOutcome
<1>23. CASE client' = Effects(e)
  BY <1>2, <1>18, <1>19, <1>20, <1>21, <1>23, HookOutcome
<1>24. QED BY <1>8, <1>22, <1>23

LEMMA HearStatusStep ==
    ASSUME LibraryTyped, HearStatus
    PROVE  Outcome
<1>1. /\ client.status.on \in {"ok", "missing"} /\ client' = StatusAnswer
      /\ UNCHANGED <<server, session, strays, left, seen>>
  BY DEF HearStatus
<1>2. saved \in Nat /\ client \in Clients(saved) /\ client.account = owner
  BY <1>1 DEF LibraryTyped, Empty, NoRequest
<1> DEFINE rest == [client EXCEPT !.status = NoRequest]
           item == client.status.item
           merged == Merge(client.thread, StatusItem(client.thread, item))
           told == [rest EXCEPT !.thread = merged]
           gone == [rest EXCEPT !.removed = TRUE]
           asked == FetchDetail(told, FALSE, {"poll"})
<1>3. item \in Marks(client) /\ item \in Threads /\ client.thread \in Threads
  <2>1. client.status \in Requests /\ client.thread \in Threads
    BY <1>2, ClientParts
  <2>2. QED BY <2>1 DEF Requests, Marks
<1>4. merged \in Threads
  BY <1>3, MergeTyped
<1>5. \/ client' = rest \/ client' = gone
      \/ Known(client.thread) /\ client' \in {Effects(told), Effects(asked)}
  BY <1>1 DEF StatusAnswer
<1> HIDE DEF item, merged
<1>6. rest \in Clients(saved) /\ gone \in Clients(saved) /\ told \in Clients(saved)
  BY <1>2, <1>4, ItemDefaults DEF Clients
<1>7. /\ rest.account = client.account /\ gone.account = client.account
      /\ told.account = client.account
      /\ rest.removed = client.removed /\ gone.removed /\ told.removed = client.removed
      /\ rest.thread = client.thread /\ gone.thread = client.thread
      /\ told.thread = merged
      /\ rest.retry = client.retry /\ rest.retryKey = client.retryKey
      /\ gone.retry = client.retry /\ gone.retryKey = client.retryKey
      /\ told.retry = client.retry /\ told.retryKey = client.retryKey
  BY <1>2 DEF Clients
<1>8. /\ Marks(rest) \subseteq Marks(client) /\ Marks(gone) \subseteq Marks(client)
      /\ Marks(told) \subseteq Marks(client)
  BY <1>2 DEF Clients, Marks, NoRequest
<1> HIDE DEF rest, gone, told
<1>9. Heard(client, rest) /\ Heard(client, gone)
  BY <1>7, <1>8 DEF Heard, Alike
<1>10. Known(client.thread) => Heard(client, told)
  <2>1. Alike(Merge(client.thread, StatusItem(client.thread, item)), told.thread)
    BY <1>7 DEF Alike, merged
  <2>2. QED BY <1>3, <1>7, <1>8, <2>1 DEF Heard
<1>11. asked \in Clients(saved) /\ Quiet(told, asked)
  BY <1>2, <1>6, FetchDetailFits DEF Waits
<1> HIDE DEF asked
<1>12. /\ Effects(told) \in Clients(saved) /\ Quiet(told, Effects(told))
       /\ Effects(asked) \in Clients(saved) /\ Quiet(asked, Effects(asked))
  BY <1>2, <1>6, <1>11, EffectsFit
<1>13. Known(client.thread) =>
          Heard(client, Effects(told)) /\ Heard(client, Effects(asked))
  BY <1>10, <1>11, <1>12, HeardThenQuiet
<1>14. /\ Effects(told).retry = client.retry /\ Effects(told).retryKey = client.retryKey
       /\ Effects(asked).retry = client.retry /\ Effects(asked).retryKey = client.retryKey
  BY <1>7, <1>11, <1>12 DEF Quiet
<1>15. HookOnly
  BY <1>1, Frames
<1>16. CASE client' = rest \/ client' = gone
  BY <1>2, <1>6, <1>7, <1>9, <1>15, <1>16, HookOutcome
<1>17. CASE Known(client.thread) /\ client' \in {Effects(told), Effects(asked)}
  BY <1>2, <1>12, <1>13, <1>14, <1>15, <1>17, HookOutcome
<1>18. QED BY <1>5, <1>16, <1>17

LEMMA HearReadStep ==
    ASSUME LibraryTyped, HearRead
    PROVE  Outcome
<1> DEFINE w == client.writes[1]
           ws == Tail(client.writes)
           shorter == [client EXCEPT !.writes = ws]
           next == StartWrite(shorter)
           intent == [next.intent EXCEPT !.pending = FALSE]
           made == [next EXCEPT !.intent = intent]
           settled == BumpRead(made)
           now == TRUE
           heard == Receive(settled, w.item, now)
           asked == FetchDetail(settled, TRUE, {})
<1>1. /\ client.writes # <<>> /\ client' = ReadAnswer(w)
      /\ UNCHANGED <<server, session, strays, left, seen>>
  BY DEF HearRead
<1>2. saved \in Nat /\ client \in Clients(saved) /\ client.account = owner
  BY <1>1 DEF LibraryTyped, Empty
<1>3. /\ client.writes \in Seq(Writes) /\ w \in Writes
      /\ w.item \in Marks(client) /\ w.item \in Threads
  <2>1. client.writes \in Seq(Writes)
    BY <1>2, ClientParts
  <2>2. 1 \in 1 .. Len(client.writes) /\ w \in Writes
    BY <1>1, <2>1, EmptySeq
  <2>3. w.item \in Marks(client)
    BY <2>2 DEF Marks
  <2>4. QED BY <2>1, <2>2, <2>3 DEF Writes
<1>4. /\ ws \in Seq(Writes)
      /\ \A i \in 1 .. Len(ws) : \E j \in 1 .. Len(client.writes) : ws[i] = client.writes[j]
  <2>1. Len(client.writes) \in Nat \ {0}
    BY <1>1, <1>3, EmptySeq
  <2>2. /\ ws \in Seq(Writes) /\ Len(ws) = Len(client.writes) - 1
        /\ \A i \in 1 .. Len(ws) : ws[i] = client.writes[i + 1]
    BY <1>1, <1>3
  <2>3. \A i \in 1 .. Len(ws) : i + 1 \in 1 .. Len(client.writes)
    BY <2>1, <2>2
  <2>4. QED BY <2>2, <2>3
<1>5. client' \in {next, Effects(heard), asked}
  BY <1>1 DEF ReadAnswer
<1> HIDE DEF w, ws, now
<1>6. shorter \in Clients(saved) /\ Quiet(client, shorter)
      /\ shorter.thread = client.thread
  <2>1. shorter \in Clients(saved)
    BY <1>2, <1>4 DEF Clients
  <2>2. /\ shorter.homes = client.homes /\ shorter.pages = client.pages
        /\ shorter.details = client.details /\ shorter.writes = ws
        /\ shorter.thread = client.thread /\ shorter.status = client.status
        /\ shorter.retry = client.retry /\ shorter.variant = client.variant
        /\ shorter.save = client.save /\ shorter.account = client.account
        /\ shorter.removed = client.removed /\ shorter.retryKey = client.retryKey
    BY <1>2 DEF Clients
  <2> HIDE DEF shorter
  <2>3. Marks(shorter) \subseteq Marks(client)
    BY <1>4, <2>2 DEF Marks
  <2>4. QED BY <2>1, <2>2, <2>3 DEF Quiet, Alike
<1> HIDE DEF shorter
<1>7. next \in Clients(saved) /\ Quiet(shorter, next) /\ next.thread = shorter.thread
  BY <1>2, <1>6, StartWriteFits
<1> HIDE DEF next
<1>8. intent \in Intents
  <2>1. next.intent \in Intents
    BY <1>2, <1>7, ClientParts
  <2>2. CASE next.intent = NoIntent
    <3>1. NoIntent \in [status : {None}, pending : {FALSE}]
      BY DEF NoIntent
    <3>2. [NoIntent EXCEPT !.pending = FALSE] = NoIntent
      BY <3>1
    <3>3. intent = NoIntent
      BY <2>2, <3>2
    <3>4. QED BY <3>3 DEF Intents
  <2>3. CASE next.intent \in [status : ReadStatus, pending : BOOLEAN]
    <3>1. intent \in [status : ReadStatus, pending : BOOLEAN]
      BY <2>3
    <3>2. QED BY <3>1 DEF Intents
  <2>4. QED BY <2>1, <2>2, <2>3 DEF Intents
<1> HIDE DEF intent
<1>9. made \in Clients(saved) /\ Quiet(next, made) /\ made.thread = next.thread
  <2>1. made \in Clients(saved) /\ made.thread = next.thread
    BY <1>7, <1>8 DEF Clients
  <2>2. Quiet(next, made)
    BY <1>7 DEF Clients, Quiet, Alike, Marks
  <2>3. QED BY <2>1, <2>2
<1> HIDE DEF made
<1>10. settled \in Clients(saved) /\ Quiet(made, settled) /\ settled.thread = made.thread
  BY <1>2, <1>9, BumpReadFits
<1> HIDE DEF settled
<1>11. Quiet(client, next)
  BY <1>6, <1>7, QuietTransitive
<1>12. Quiet(client, settled) /\ Less(client, settled)
  <2>1. Quiet(client, made)
    BY <1>9, <1>11, QuietTransitive
  <2>2. Quiet(client, settled)
    BY <1>10, <2>1, QuietTransitive
  <2>3. QED BY <1>6, <1>7, <1>9, <1>10, <2>2 DEF Quiet, Less
<1>13. PICK t \in Threads :
          /\ heard = [settled EXCEPT !.thread = t]
          /\ heard \in Clients(saved) /\ Heard(client, heard)
  BY <1>2, <1>3, <1>10, <1>12, ReceiveHeard
<1>14. heard.retry = settled.retry /\ heard.retryKey = settled.retryKey
  BY <1>10, <1>13 DEF Clients
<1> HIDE DEF heard
<1>15. /\ Effects(heard) \in Clients(saved) /\ Quiet(heard, Effects(heard))
  BY <1>2, <1>13, EffectsFit
<1>16. asked \in Clients(saved) /\ Quiet(settled, asked)
  BY <1>2, <1>10, FetchDetailFits
<1>17. Quiet(client, asked)
  BY <1>12, <1>16, QuietTransitive
<1>18. /\ Heard(client, Effects(heard))
       /\ Effects(heard).retry = client.retry
       /\ Effects(heard).retryKey = client.retryKey
  BY <1>12, <1>13, <1>14, <1>15, HeardThenQuiet DEF Quiet
<1>19. HookOnly
  BY <1>1, Frames
<1>20. CASE client' = next \/ client' = asked
  BY <1>2, <1>7, <1>11, <1>16, <1>17, <1>19, <1>20, QuietOutcome
<1>21. CASE client' = Effects(heard)
  BY <1>2, <1>15, <1>18, <1>19, <1>21, HookOutcome
<1>22. QED BY <1>5, <1>20, <1>21

LEMMA HearRetryStep ==
    ASSUME LibraryTyped, HearRetry
    PROVE  /\ Outcome
           /\ client'.retry = NoRequest /\ client'.retryKey = None
           /\ client'.removed = client.removed
           /\ Known(client.retry.item) /\ ~client.removed
                => client'.thread.gen = Merge(client.thread, client.retry.item).gen
           /\ ~(Known(client.retry.item) /\ ~client.removed)
                => client'.thread.gen = client.thread.gen
<1> DEFINE item == client.retry.item
           rest == [client EXCEPT !.retry = NoRequest, !.retryKey = None]
           now == TRUE
           heard == Receive(rest, item, now)
<1>1. /\ client.retry.on \in {"ok", "refused"} /\ client' = Effects(heard)
      /\ strays' \subseteq strays
      /\ UNCHANGED <<server, session, left, seen>>
  BY DEF HearRetry
<1>2. saved \in Nat /\ client \in Clients(saved) /\ client.account = owner
  BY <1>1 DEF LibraryTyped, Empty, NoRequest
<1>3. item \in Marks(client) /\ item \in Threads /\ client.thread \in Threads
  <2>1. client.retry \in Requests /\ client.thread \in Threads
    BY <1>2, ClientParts
  <2>2. QED BY <2>1 DEF Requests, Marks
<1>4. rest \in Clients(saved)
  BY <1>2, ItemDefaults DEF Clients
<1>5. Less(client, rest) /\ rest.retry = NoRequest /\ rest.retryKey = None
  BY <1>2 DEF Clients, Less, Marks, NoRequest
<1> HIDE DEF item, rest, now
<1>6. PICK t \in Threads :
         /\ heard = [rest EXCEPT !.thread = t]
         /\ heard \in Clients(saved) /\ Heard(client, heard)
  BY <1>2, <1>3, <1>4, <1>5, ReceiveHeard
<1>7. heard.retry = NoRequest /\ heard.retryKey = None /\ heard.removed = rest.removed
      /\ heard.thread = t
  BY <1>4, <1>5, <1>6 DEF Clients
<1>8. /\ ~rest.removed /\ Known(item) => Alike(Merge(rest.thread, item), t)
      /\ ~(~rest.removed /\ Known(item)) => t = rest.thread
  <2>1. PICK u \in Threads :
           /\ heard = [rest EXCEPT !.thread = u]
           /\ u # rest.thread => Known(item) /\ ~rest.removed
           /\ ~rest.removed /\ Known(item) => Alike(Merge(rest.thread, item), u)
    BY <1>2, <1>3, <1>4, ReceiveFits
  <2>2. [rest EXCEPT !.thread = u].thread = u
    BY <1>4 DEF Clients
  <2>3. u = t
    BY <1>7, <2>1, <2>2
  <2>4. QED BY <2>1, <2>3
<1> HIDE DEF heard
<1>9. Effects(heard) \in Clients(saved) /\ Quiet(heard, Effects(heard))
  BY <1>2, <1>6, EffectsFit
<1>10. Heard(client, client')
  BY <1>1, <1>6, <1>9, HeardThenQuiet
<1>11. HookOnly
  <2>1. strays \subseteq Strays /\ left \in [Uses -> Nat]
        /\ seen \in [mixed : BOOLEAN, late : BOOLEAN]
    BY DEF LibraryTyped
  <2>2. QED BY <1>1, <2>1 DEF HookOnly, server
<1>12. Outcome
  BY <1>1, <1>2, <1>9, <1>10, <1>11, HookOutcome
<1>13. /\ client'.retry = NoRequest /\ client'.retryKey = None
       /\ client'.removed = client.removed /\ client'.thread.gen = t.gen
  BY <1>1, <1>5, <1>7, <1>9 DEF Quiet, Alike, Less
<1>14. QED BY <1>5, <1>8, <1>12, <1>13 DEF Less, Alike, item

LEMMA HearVariantStep ==
    ASSUME LibraryTyped, HearVariant
    PROVE  Outcome
<1> DEFINE rest == [client EXCEPT !.variant = NoRequest]
           err == client.open /\ client.density
           failed == [rest EXCEPT !.densityError = err]
           t == [client.thread EXCEPT !.variant = client.variant.item.variant]
           told == [rest EXCEPT !.thread = t]
<1>1. /\ client.variant.on \in {"ok", "refused"} /\ client' = VariantAnswer
      /\ UNCHANGED <<server, session, strays, left, seen>>
  BY DEF HearVariant
<1>2. saved \in Nat /\ client \in Clients(saved) /\ client.account = owner
  BY <1>1 DEF LibraryTyped, Empty, NoRequest
<1>3. rest \in Clients(saved) /\ rest.thread = client.thread
  BY <1>2, ItemDefaults DEF Clients
<1>4. client' \in {rest, failed, Effects(told)}
  BY <1>1, <1>3 DEF VariantAnswer
<1>5. client.open \in BOOLEAN /\ client.density \in BOOLEAN /\ client.thread \in Threads
      /\ client.variant \in Requests
  BY <1>2, ClientParts
<1>6. err \in BOOLEAN
  BY <1>5
<1>7. t \in Threads /\ Alike(client.thread, t)
  <2>1. client.variant.item \in Threads
    BY <1>5 DEF Requests
  <2>2. client.variant.item.variant \in Variants
    BY <2>1 DEF Threads
  <2>3. t \in Threads
    BY <1>5, <2>2 DEF Threads
  <2>4. Alike(client.thread, t)
    BY <1>5 DEF Threads, Alike
  <2>5. QED BY <2>3, <2>4
<1> HIDE DEF err, t
<1>8. failed \in Clients(saved) /\ told \in Clients(saved)
  <2>1. rest \in Clients(saved)
    BY <1>3
  <2> HIDE DEF rest
  <2>2. failed \in Clients(saved)
    BY <1>6, <2>1 DEF Clients
  <2>3. t \in Threads
    BY <1>7
  <2>4. told \in Clients(saved)
    BY <2>1, <2>3 DEF Clients
  <2>5. QED BY <2>2, <2>4
<1>9. Quiet(client, rest) /\ Quiet(client, failed) /\ Quiet(client, told)
  <2>1. Quiet(client, rest)
    BY <1>2 DEF Clients, Quiet, Alike, Marks, NoRequest
  <2>2. Quiet(client, failed)
    BY <1>2 DEF Clients, Quiet, Alike, Marks, NoRequest
  <2>3. told.thread = t
    BY <1>2 DEF Clients
  <2>4. Quiet(client, told)
    BY <1>2, <1>7, <2>3 DEF Clients, Quiet, Marks, NoRequest
  <2>5. QED BY <2>1, <2>2, <2>4
<1> HIDE DEF rest, failed, told
<1>10. Effects(told) \in Clients(saved) /\ Quiet(told, Effects(told))
  BY <1>2, <1>8, EffectsFit
<1>11. Quiet(client, Effects(told))
  BY <1>9, <1>10, QuietTransitive
<1>12. client' \in Clients(saved) /\ Quiet(client, client')
  BY <1>3, <1>4, <1>8, <1>9, <1>10, <1>11
<1>13. QED BY <1>1, <1>2, <1>12, Frames, QuietOutcome

LEMMA HearSaveStep ==
    ASSUME LibraryTyped, HearSave
    PROVE  Outcome
<1> DEFINE rest == [client EXCEPT !.save = NoSave]
           item == client.save.item
           top == client.save.row
           now == TRUE
           heard == Receive(rest, item, now)
           home == <<top>> \o Without(heard.home, {top})
           d == [heard EXCEPT !.home = home]
<1>1. /\ client.save.on \in {"new", "known"} /\ client' = Effects(d)
      /\ UNCHANGED <<server, session, strays, left, seen>>
  BY DEF HearSave, SaveAnswer
<1>2. saved \in Nat /\ client \in Clients(saved) /\ client.account = owner
  BY <1>1 DEF LibraryTyped, Empty
<1>3. item \in Marks(client) /\ item \in Threads /\ top \in 1 .. saved
  <2>1. client.save \in Saves(saved)
    BY <1>2, ClientParts
  <2>2. QED BY <1>1, <1>2, <2>1 DEF Saves, Marks
<1>4. rest \in Clients(saved)
  BY <1>2, ItemDefaults DEF Clients
<1>5. Less(client, rest) /\ rest.retry = client.retry /\ rest.retryKey = client.retryKey
  BY <1>2 DEF Clients, Less, Marks, NoSave
<1> HIDE DEF item, rest, top, now
<1>6. PICK t \in Threads :
         /\ heard = [rest EXCEPT !.thread = t]
         /\ heard \in Clients(saved) /\ Heard(client, heard)
  BY <1>2, <1>3, <1>4, <1>5, ReceiveHeard
<1>7. heard.retry = rest.retry /\ heard.retryKey = rest.retryKey
  BY <1>4, <1>6 DEF Clients
<1> HIDE DEF heard
<1>8. home \in Lists(saved)
  <2>1. heard.home \in Lists(saved)
    BY <1>2, <1>6, ClientParts
  <2>2. QED BY <1>2, <1>3, <2>1, OnTopFits
<1> HIDE DEF home
<1>9. d \in Clients(saved) /\ Quiet(heard, d)
  <2>1. heard \in Clients(saved)
    BY <1>6
  <2>2. d \in Clients(saved)
    BY <1>8, <2>1 DEF Clients
  <2>3. Quiet(heard, d)
    BY <2>1 DEF Clients, Quiet, Alike, Marks
  <2>4. QED BY <2>2, <2>3
<1> HIDE DEF d
<1>10. Effects(d) \in Clients(saved) /\ Quiet(d, Effects(d))
  BY <1>2, <1>9, EffectsFit
<1>11. Heard(client, client')
  BY <1>1, <1>6, <1>9, <1>10, HeardThenQuiet
<1>12. client'.retry = client.retry /\ client'.retryKey = client.retryKey
  BY <1>1, <1>5, <1>7, <1>9, <1>10 DEF Quiet
<1>13. QED BY <1>1, <1>2, <1>10, <1>11, <1>12, Frames, HookOutcome

LEMMA HearRemovalStep ==
    ASSUME LibraryTyped, HearRemoval
    PROVE  Outcome
<1> DEFINE rest == [client EXCEPT !.removal = NoRequest]
           home == Without(client.home, {Focus})
           archive == Without(client.archive, {Focus})
           gone == [rest EXCEPT !.removed = TRUE, !.home = home, !.archive = archive]
<1>1. saved \in Nat /\ client \in Clients(saved) /\ client.account = owner
  BY DEF HearRemoval, LibraryTyped, Empty, NoRequest
<1>2. rest \in Clients(saved) /\ rest.home = client.home /\ rest.archive = client.archive
  BY <1>1, ItemDefaults DEF Clients
<1>3. /\ client' \in {rest, gone, Close(gone)}
      /\ UNCHANGED <<server, session, strays, left, seen>>
  BY <1>2 DEF HearRemoval
<1>4. home \in Lists(saved) /\ archive \in Lists(saved)
  BY <1>1, ClientParts, WithoutFits
<1> HIDE DEF home, archive
<1>5. gone \in Clients(saved)
  BY <1>2, <1>4 DEF Clients
<1>6. Quiet(client, rest)
  BY <1>1 DEF Clients, Quiet, Alike, Marks
<1>7. Heard(client, gone) /\ gone.retry = client.retry /\ gone.retryKey = client.retryKey
  BY <1>1 DEF Clients, Heard, Alike, Marks
<1> HIDE DEF rest, gone
<1>8. Close(gone) \in Clients(saved) /\ Quiet(gone, Close(gone))
  BY <1>1, <1>5, CloseFits
<1>9. /\ Heard(client, Close(gone))
      /\ Close(gone).retry = client.retry /\ Close(gone).retryKey = client.retryKey
  BY <1>7, <1>8, HeardThenQuiet DEF Quiet
<1>10. Heard(client, rest) /\ rest.retry = client.retry /\ rest.retryKey = client.retryKey
  BY <1>6, QuietIsHeard DEF Quiet
<1>11. client' \in Clients(saved) /\ Heard(client, client')
       /\ client'.retry = client.retry /\ client'.retryKey = client.retryKey
  BY <1>2, <1>3, <1>5, <1>7, <1>8, <1>9, <1>10
<1>12. QED BY <1>1, <1>3, <1>11, Frames, HookOutcome

-----------------------------------------------------------------------------
(* No answer.                                                              *)

LEMMA FaultFrame ==
    ASSUME LibraryTyped, Fault, UNCHANGED <<server, session, seen>>,
           strays' \subseteq Strays
    PROVE  HookOnly
<1>1. left' \in [Uses -> Nat]
  BY Frames, UsesNamed DEF Fault
<1>2. QED BY <1>1 DEF HookOnly, server, LibraryTyped

LEMMA StraysFit ==
    ASSUME LibraryTyped, NEW r, NEW name \in Strays, MayStray(r, name)
    PROVE  strays' \subseteq Strays
  BY DEF LibraryTyped, MayStray

LEMMA LoseHomeStep ==
    ASSUME LibraryTyped, LoseHome
    PROVE  Outcome
<1>1. PICK h \in client.homes :
         client' = [client EXCEPT !.homes = client.homes \ {h}]
  BY DEF LoseHome
<1>2. saved \in Nat /\ client \in Clients(saved) /\ strays \subseteq Strays
      /\ (client.account # owner => Empty(client))
  BY DEF LibraryTyped
<1>3. HookOnly
  BY <1>2, FaultFrame DEF LoseHome
<1> DEFINE hs == client.homes \ {h}
<1>4. hs \in SUBSET HomeRequests(saved) /\ hs \subseteq client.homes
  BY <1>2, ClientParts
<1>5. client' = [client EXCEPT !.homes = hs]
  BY <1>1
<1> HIDE DEF hs
<1>6. client' \in Clients(saved)
  BY <1>2, <1>4, <1>5 DEF Clients
<1>7. Quiet(client, client')
  BY <1>2, <1>4, <1>5 DEF Clients, Quiet, Alike, Marks
<1>8. Empty(client) => Empty(client')
  BY <1>2, <1>4, <1>5 DEF Clients, Empty
<1>9. QED BY <1>2, <1>3, <1>6, <1>7, <1>8, QuietOutcome

LEMMA LosePageStep ==
    ASSUME LibraryTyped, LosePage
    PROVE  Outcome
<1>1. PICK p \in client.pages :
         client' = IF p.fresh
                   THEN [client EXCEPT !.pages = client.pages \ {p},
                                       !.moreBusy = FALSE, !.archiveError = TRUE]
                   ELSE [client EXCEPT !.pages = client.pages \ {p}]
  BY DEF LosePage
<1>2. saved \in Nat /\ client \in Clients(saved) /\ strays \subseteq Strays
      /\ (client.account # owner => Empty(client))
  BY DEF LibraryTyped
<1>3. HookOnly
  BY <1>2, FaultFrame DEF LosePage
<1> DEFINE ps == client.pages \ {p}
           old == [client EXCEPT !.pages = ps]
           new == [client EXCEPT !.pages = ps, !.moreBusy = FALSE, !.archiveError = TRUE]
<1>4. ps \in SUBSET PageRequests(saved) /\ ps \subseteq client.pages
  BY <1>2, ClientParts
<1>5. client' \in {old, new}
  BY <1>1
<1> HIDE DEF ps
<1>6. old \in Clients(saved) /\ new \in Clients(saved)
  BY <1>2, <1>4 DEF Clients
<1>7. Quiet(client, old) /\ Quiet(client, new)
  BY <1>2, <1>4 DEF Clients, Quiet, Alike, Marks
<1>8. Empty(client) => Empty(old) /\ Empty(new)
  BY <1>2, <1>4 DEF Clients, Empty
<1> HIDE DEF old, new
<1>9. QED BY <1>2, <1>3, <1>5, <1>6, <1>7, <1>8, QuietOutcome

LEMMA LoseDetailStep ==
    ASSUME LibraryTyped, LoseDetail
    PROVE  Outcome
<1>1. PICK d \in client.details :
         client' = [client EXCEPT !.details = client.details \ {d},
                                  !.detailError = client.detailError \/ client.open]
  BY DEF LoseDetail
<1>2. saved \in Nat /\ client \in Clients(saved) /\ strays \subseteq Strays
      /\ client.account = owner
  BY <1>1 DEF LibraryTyped, Empty
<1>3. HookOnly
  BY <1>2, FaultFrame DEF LoseDetail
<1> DEFINE ds == client.details \ {d}
           err == client.detailError \/ client.open
<1>4. ds \in SUBSET DetailRequests /\ ds \subseteq client.details /\ err \in BOOLEAN
  BY <1>2, ClientParts
<1>5. client' = [client EXCEPT !.details = ds, !.detailError = err]
  BY <1>1
<1> HIDE DEF ds, err
<1>6. client' \in Clients(saved)
  BY <1>2, <1>4, <1>5 DEF Clients
<1>7. Quiet(client, client')
  BY <1>2, <1>4, <1>5 DEF Clients, Quiet, Alike, Marks
<1>8. QED BY <1>2, <1>3, <1>6, <1>7, QuietOutcome

LEMMA LoseStatusStep ==
    ASSUME LibraryTyped, LoseStatus
    PROVE  Outcome
<1>1. saved \in Nat /\ client \in Clients(saved) /\ strays \subseteq Strays
      /\ client.account = owner
  BY DEF LibraryTyped, LoseStatus, Empty, NoRequest
<1>2. HookOnly /\ client' = [client EXCEPT !.status = NoRequest]
  BY <1>1, FaultFrame DEF LoseStatus
<1>3. client' \in Clients(saved)
  BY <1>1, <1>2, ItemDefaults DEF Clients
<1>4. Quiet(client, client')
  BY <1>1, <1>2 DEF Clients, Quiet, Alike, Marks, NoRequest
<1>5. QED BY <1>1, <1>2, <1>3, <1>4, QuietOutcome

LEMMA LoseReadStep ==
    ASSUME LibraryTyped, LoseRead
    PROVE  Outcome
<1> DEFINE ws == Tail(client.writes)
           shorter == [client EXCEPT !.writes = ws]
<1>1. /\ client.writes # <<>> /\ client' = StartWrite(shorter)
      /\ MayStray(client.writes[1], client.writes[1].status)
  BY DEF LoseRead
<1>2. saved \in Nat /\ client \in Clients(saved) /\ client.account = owner
  BY <1>1 DEF LibraryTyped, Empty
<1>3. client.writes \in Seq(Writes)
  BY <1>2, ClientParts
<1>4. /\ ws \in Seq(Writes) /\ Len(ws) = Len(client.writes) - 1
      /\ \A i \in 1 .. Len(ws) : ws[i] = client.writes[i + 1]
      /\ Len(client.writes) \in Nat /\ 1 \in 1 .. Len(client.writes)
      /\ client.writes[1] \in Writes
  BY <1>1, <1>3
<1>5. strays' \subseteq Strays
  <2>1. client.writes[1].status \in Strays
    BY <1>4 DEF Writes, Strays
  <2>2. QED BY <1>1, <2>1, StraysFit
<1>6. HookOnly
  BY <1>5, FaultFrame DEF LoseRead
<1> HIDE DEF ws
<1>7. shorter \in Clients(saved)
  BY <1>2, <1>4 DEF Clients
<1>8. Quiet(client, shorter)
  <2>1. \A i \in 1 .. Len(ws) : \E j \in 1 .. Len(client.writes) :
           ws[i].item = client.writes[j].item
    <3>1. TAKE i \in 1 .. Len(ws)
    <3>2. i + 1 \in 1 .. Len(client.writes)
      BY <1>4
    <3>3. QED BY <1>4, <3>2
  <2>2. shorter.writes = ws /\ shorter.thread = client.thread
        /\ shorter.homes = client.homes /\ shorter.pages = client.pages
        /\ shorter.details = client.details /\ shorter.status = client.status
        /\ shorter.retry = client.retry /\ shorter.variant = client.variant
        /\ shorter.save = client.save /\ shorter.account = client.account
        /\ shorter.removed = client.removed /\ shorter.retryKey = client.retryKey
    BY <1>2 DEF Clients
  <2> HIDE DEF shorter
  <2>3. Marks(shorter) \subseteq Marks(client)
    BY <2>1, <2>2 DEF Marks
  <2>4. QED BY <2>2, <2>3 DEF Quiet, Alike
<1> HIDE DEF shorter
<1>9. client' \in Clients(saved) /\ Quiet(shorter, client')
  BY <1>1, <1>2, <1>7, StartWriteFits
<1>10. Quiet(client, client')
  BY <1>8, <1>9, QuietTransitive
<1>11. QED BY <1>2, <1>6, <1>9, <1>10, QuietOutcome

LEMMA LoseRetryStep ==
    ASSUME LibraryTyped, LoseRetry
    PROVE  /\ Outcome
           /\ Marks(client') \subseteq Marks(client)
           /\ client'.retry = NoRequest /\ client'.retryKey = client.retryKey
           /\ client'.removed = client.removed /\ client'.thread = client.thread
           /\ client'.account = client.account
<1>1. saved \in Nat /\ client \in Clients(saved) /\ client.account = owner
  BY DEF LibraryTyped, LoseRetry, Empty, NoRequest
<1>2. client' = [client EXCEPT !.retry = NoRequest]
  BY DEF LoseRetry
<1>3. strays' \subseteq Strays
  BY StraysFit DEF LoseRetry, Strays
<1>4. HookOnly
  BY <1>3, FaultFrame DEF LoseRetry
<1>5. client' \in Clients(saved)
  BY <1>1, <1>2, ItemDefaults DEF Clients
<1>6. Less(client, client') /\ client'.retry = NoRequest
      /\ client'.retryKey = client.retryKey
  BY <1>1, <1>2 DEF Clients, Less, Marks, NoRequest
<1>7. Heard(client, client')
  BY <1>6 DEF Less, Heard, Alike
<1>8. QED BY <1>1, <1>4, <1>5, <1>6, <1>7, HookOutcome DEF Less

LEMMA LoseVariantStep ==
    ASSUME LibraryTyped, LoseVariant
    PROVE  Outcome
<1> DEFINE err == client.open /\ client.density
<1>1. saved \in Nat /\ client \in Clients(saved) /\ client.account = owner
  BY DEF LibraryTyped, LoseVariant, Empty, NoRequest
<1>2. client' = [client EXCEPT !.variant = NoRequest, !.densityError = err]
  BY DEF LoseVariant
<1>3. strays' \subseteq Strays
  BY StraysFit DEF LoseVariant, Strays
<1>4. HookOnly
  BY <1>3, FaultFrame DEF LoseVariant
<1>5. err \in BOOLEAN
  BY <1>1, ClientParts
<1> HIDE DEF err
<1>6. client' \in Clients(saved)
  BY <1>1, <1>2, <1>5, ItemDefaults DEF Clients
<1>7. Quiet(client, client')
  BY <1>1, <1>2 DEF Clients, Quiet, Alike, Marks, NoRequest
<1>8. QED BY <1>1, <1>4, <1>6, <1>7, QuietOutcome

LEMMA LoseSaveStep ==
    ASSUME LibraryTyped, LoseSave
    PROVE  Outcome
<1>1. saved \in Nat /\ client \in Clients(saved)
      /\ (client.account # owner => Empty(client))
  BY DEF LibraryTyped
<1>2. client' = [client EXCEPT !.save = NoSave]
  BY DEF LoseSave
<1>3. strays' \subseteq Strays
  BY StraysFit DEF LoseSave, Strays
<1>4. HookOnly
  BY <1>3, FaultFrame DEF LoseSave
<1>5. client' \in Clients(saved)
  BY <1>1, <1>2, ItemDefaults DEF Clients
<1>6. Quiet(client, client')
  BY <1>1, <1>2 DEF Clients, Quiet, Alike, Marks, NoSave
<1>7. Empty(client) => Empty(client')
  BY <1>1, <1>2 DEF Clients, Empty, NoSave
<1>8. QED BY <1>1, <1>4, <1>5, <1>6, <1>7, QuietOutcome

LEMMA LoseRemovalStep ==
    ASSUME LibraryTyped, LoseRemoval
    PROVE  Outcome
<1>1. saved \in Nat /\ client \in Clients(saved) /\ client.account = owner
  BY DEF LibraryTyped, LoseRemoval, Empty, NoRequest
<1>2. client' = [client EXCEPT !.removal = NoRequest]
  BY DEF LoseRemoval
<1>3. strays' \subseteq Strays
  BY StraysFit DEF LoseRemoval, Strays
<1>4. HookOnly
  BY <1>3, FaultFrame DEF LoseRemoval
<1>5. client' \in Clients(saved)
  BY <1>1, <1>2, ItemDefaults DEF Clients
<1>6. Quiet(client, client')
  BY <1>1, <1>2 DEF Clients, Quiet, Alike, Marks
<1>7. QED BY <1>1, <1>4, <1>5, <1>6, QuietOutcome

-----------------------------------------------------------------------------
(* What runs by itself.                                                    *)

LEMMA OwnersOnly ==
    ASSUME LibraryTyped
    PROVE  /\ client.account # owner => Empty(client)
           /\ Known(client.thread) \/ client.open => client.account = owner
           /\ client.account = None => ~Known(client.thread)
<1>1. client.account # owner => Empty(client)
  BY DEF LibraryTyped
<1>2. ~Known(NoThread)
  BY DEF Known, NoThread
<1>3. None # owner
  BY LibraryAssumption, UsersAssumption
<1>4. QED BY <1>1, <1>2, <1>3 DEF Empty

LEMMA TimerFiresStep ==
    ASSUME LibraryTyped, TimerFires
    PROVE  Outcome
<1> DEFINE c == [client EXCEPT !.timer = FALSE]
<1>1. saved \in Nat /\ client \in Clients(saved)
  BY DEF LibraryTyped
<1>2. client' = RefreshArchive(c) /\ HookOnly
  BY Frames DEF TimerFires
<1>3. c \in Clients(saved)
  BY <1>1 DEF Clients
<1>4. Quiet(client, c) /\ (Empty(client) => Empty(c))
  BY <1>1 DEF Clients, Quiet, Alike, Marks, Empty
<1>5. ListStep(saved, client, c)
  BY <1>3, <1>4 DEF ListStep
<1> HIDE DEF c
<1>6. ListStep(saved, c, client')
  BY <1>1, <1>2, <1>3, RefreshArchiveFits
<1>7. QED BY <1>2, <1>5, <1>6, ListStepTransitive, ListOutcome

LEMMA PollStep ==
    ASSUME LibraryTyped, Poll
    PROVE  Outcome
<1> DEFINE now == FALSE
           waits == {"poll"}
           fetched == FetchDetail(client, now, waits)
           r == [client.status EXCEPT !.on = "sent"]
           asked == [client EXCEPT !.status = r]
<1>1. saved \in Nat /\ client \in Clients(saved)
  BY DEF LibraryTyped
<1>2. client.account = owner /\ HookOnly /\ client' \in {fetched, asked}
  BY OwnersOnly, Frames DEF Poll, Polled
<1>3. waits \in SUBSET Waits /\ now \in BOOLEAN
  BY DEF Waits
<1> HIDE DEF now, waits
<1>4. fetched \in Clients(saved) /\ Quiet(client, fetched)
  BY <1>1, <1>3, FetchDetailFits
<1>5. client.status \in Requests
  BY <1>1, ClientParts
<1>6. r \in Requests /\ r.item = client.status.item
  BY <1>5 DEF Requests
<1> HIDE DEF r
<1>7. asked \in Clients(saved)
  BY <1>1, <1>6 DEF Clients
<1>8. Quiet(client, asked)
  BY <1>1, <1>6 DEF Clients, Quiet, Alike, Marks
<1> HIDE DEF fetched, asked
<1>9. QED BY <1>2, <1>4, <1>7, <1>8, QuietOutcome

LEMMA ReconcileStep ==
    ASSUME LibraryTyped, Reconcile
    PROVE  Outcome
<1> DEFINE status == client.intent.status
           changed == ChangeRead(client, status)
<1>1. saved \in Nat /\ client \in Clients(saved)
  BY DEF LibraryTyped
<1>2. client.account = owner /\ HookOnly /\ client' = Effects(changed)
  BY OwnersOnly, Frames DEF Reconcile, Unsettled
<1>3. status \in ReadStatus
  <2>1. client.intent \in Intents /\ client.intent.pending
    BY <1>1, ClientParts DEF Reconcile, Unsettled
  <2>2. client.intent # NoIntent
    BY <2>1 DEF NoIntent
  <2>3. QED BY <2>1, <2>2 DEF Intents
<1> HIDE DEF status
<1>4. changed \in Clients(saved) /\ Quiet(client, changed)
  BY <1>1, <1>3, ChangeReadFits
<1> HIDE DEF changed
<1>5. client' \in Clients(saved) /\ Quiet(changed, client')
  BY <1>1, <1>2, <1>4, EffectsFit
<1>6. QED BY <1>2, <1>4, <1>5, QuietTransitive, QuietOutcome

LEMMA ReturnStep ==
    ASSUME LibraryTyped, Return
    PROVE  Outcome
<1>1. saved \in Nat /\ client \in Clients(saved) /\ client' = Resume(client)
      /\ HookOnly
  BY Frames DEF LibraryTyped, Return
<1>2. QED BY <1>1, ResumeFits, ListOutcome

-----------------------------------------------------------------------------
(* The user.                                                               *)

LEMMA OpenFocusStep ==
    ASSUME LibraryTyped, OpenFocus
    PROVE  Outcome
<1>1. saved \in Nat /\ client \in Clients(saved) /\ client' = Open(client)
      /\ client.account = owner
  BY OwnersOnly DEF LibraryTyped, OpenFocus
<1>2. HookOnly
  BY Frames, UsesNamed DEF OpenFocus
<1>3. QED BY <1>1, <1>2, OpenFits, QuietOutcome

LEMMA CloseFocusStep ==
    ASSUME LibraryTyped, CloseFocus
    PROVE  Outcome
<1>1. saved \in Nat /\ client \in Clients(saved) /\ client' = Close(client)
      /\ client.account = owner
  BY OwnersOnly DEF LibraryTyped, CloseFocus
<1>2. HookOnly
  BY Frames DEF CloseFocus
<1>3. QED BY <1>1, <1>2, CloseFits, QuietOutcome

LEMMA MarkReadStep ==
    ASSUME LibraryTyped, MarkRead
    PROVE  Outcome
<1> DEFINE c == [client EXCEPT !.entry = TRUE]
<1>1. saved \in Nat /\ client \in Clients(saved) /\ client.account = owner
  BY OwnersOnly DEF LibraryTyped, MarkRead
<1>2. HookOnly
  BY Frames, UsesNamed DEF MarkRead
<1>3. PICK status \in ReadStatus : client' = Effects(ChangeRead(c, status))
  BY DEF MarkRead, ReadStatus
<1>4. c \in Clients(saved)
  BY <1>1 DEF Clients
<1>5. Quiet(client, c)
  BY <1>1 DEF Clients, Quiet, Alike, Marks
<1> HIDE DEF c
<1> DEFINE changed == ChangeRead(c, status)
<1>6. changed \in Clients(saved) /\ Quiet(c, changed)
  BY <1>1, <1>4, ChangeReadFits
<1>7. client' = Effects(changed)
  BY <1>3
<1> HIDE DEF changed
<1>8. client' \in Clients(saved) /\ Quiet(changed, client')
  BY <1>1, <1>6, <1>7, EffectsFit
<1>9. Quiet(client, client')
  BY <1>5, <1>6, <1>8, QuietTransitive
<1>10. QED BY <1>1, <1>2, <1>8, <1>9, QuietOutcome

LEMMA RetrySummaryStep ==
    ASSUME LibraryTyped, RetrySummary
    PROVE  /\ Outcome
           /\ client.retry.on = "no" /\ client'.retry.on = "sent"
           /\ client'.retry.item = client.retry.item
           /\ client'.retryKey = IF client.retryKey = None THEN "unknown"
                                 ELSE client.retryKey
           /\ Marks(client') \subseteq Marks(client)
           /\ client'.removed = client.removed /\ client'.thread = client.thread
           /\ client'.account = client.account
<1> DEFINE r == [client.retry EXCEPT !.on = "sent"]
           key == IF client.retryKey = None THEN "unknown" ELSE client.retryKey
<1>1. saved \in Nat /\ client \in Clients(saved) /\ client.account = owner
  BY OwnersOnly DEF LibraryTyped, RetrySummary
<1>2. HookOnly
  BY Frames, UsesNamed DEF RetrySummary
<1>3. client' = [client EXCEPT !.retry = r, !.retryKey = key]
  BY DEF RetrySummary, Retry
<1>4. client.retry \in Requests /\ client.retryKey \in {None, "unknown", "known"}
  BY <1>1, ClientParts
<1>5. /\ r \in Requests /\ r.item = client.retry.item /\ r.on = "sent"
      /\ key \in {None, "unknown", "known"}
  BY <1>4 DEF Requests
<1> HIDE DEF r
<1>6. client' \in Clients(saved)
  <2> HIDE DEF key
  <2>1. QED BY <1>1, <1>3, <1>5 DEF Clients
<1>7. Less(client, client') /\ client'.retry = r /\ client'.retryKey = key
  <2> HIDE DEF key
  <2>1. QED BY <1>1, <1>3, <1>5 DEF Clients, Less, Marks
<1>8. Heard(client, client')
  BY <1>7 DEF Less, Heard, Alike
<1>9. Outcome
  BY <1>1, <1>2, <1>6, <1>8, HookOutcome
<1>10. client.retry.on = "no"
  BY DEF RetrySummary, CanRetry
<1>11. QED BY <1>5, <1>7, <1>9, <1>10 DEF Less

LEMMA ChooseDensityStep ==
    ASSUME LibraryTyped, ChooseDensity
    PROVE  Outcome
<1> DEFINE c == [client EXCEPT !.densityError = FALSE]
<1>1. saved \in Nat /\ client \in Clients(saved) /\ client.account = owner
  BY OwnersOnly DEF LibraryTyped, ChooseDensity
<1>2. HookOnly
  BY Frames, UsesNamed DEF ChooseDensity
<1>3. c \in Clients(saved)
  BY <1>1 DEF Clients
<1>4. Quiet(client, c)
  BY <1>1 DEF Clients, Quiet, Alike, Marks
<1>5. client' \in {SelectDensity(client), RequestVariant(c)}
  BY DEF ChooseDensity
<1> HIDE DEF c
<1>6. SelectDensity(client) \in Clients(saved) /\ Quiet(client, SelectDensity(client))
  BY <1>1, SelectDensityFits
<1>7. RequestVariant(c) \in Clients(saved) /\ Quiet(client, RequestVariant(c))
  BY <1>1, <1>3, <1>4, RequestVariantFits, QuietTransitive
<1>8. QED BY <1>1, <1>2, <1>5, <1>6, <1>7, QuietOutcome

LEMMA ReloadDetailStep ==
    ASSUME LibraryTyped, ReloadDetail
    PROVE  Outcome
<1> DEFINE now == TRUE
           waits == {}
           fetched == FetchDetail(client, now, waits)
<1>1. saved \in Nat /\ client \in Clients(saved) /\ client.account = owner
  BY OwnersOnly DEF LibraryTyped, ReloadDetail
<1>2. HookOnly /\ client' = fetched
  BY Frames, UsesNamed DEF ReloadDetail
<1>3. waits \in SUBSET Waits /\ now \in BOOLEAN
  OBVIOUS
<1> HIDE DEF now, waits
<1>4. fetched \in Clients(saved) /\ Quiet(client, fetched)
  BY <1>1, <1>3, FetchDetailFits
<1> HIDE DEF fetched
<1>5. QED BY <1>1, <1>2, <1>4, QuietOutcome

LEMMA RemoveFocusStep ==
    ASSUME LibraryTyped, RemoveFocus
    PROVE  Outcome
<1> DEFINE r == [client.removal EXCEPT !.on = "sent"]
<1>1. saved \in Nat /\ client \in Clients(saved) /\ client.account = owner
  BY OwnersOnly DEF LibraryTyped, RemoveFocus
<1>2. HookOnly
  BY Frames, UsesNamed DEF RemoveFocus
<1>3. client' = [client EXCEPT !.removal = r]
  BY DEF RemoveFocus
<1>4. client.removal \in Requests
  BY <1>1, ClientParts
<1>5. r \in Requests
  BY <1>4 DEF Requests
<1> HIDE DEF r
<1>6. client' \in Clients(saved)
  BY <1>1, <1>3, <1>5 DEF Clients
<1>7. Quiet(client, client')
  BY <1>1, <1>3 DEF Clients, Quiet, Alike, Marks
<1>8. QED BY <1>1, <1>2, <1>6, <1>7, QuietOutcome

LEMMA SaveUrlStep ==
    ASSUME LibraryTyped, SaveUrl
    PROVE  Outcome
<1> DEFINE s == [client.save EXCEPT !.on = "sent"]
<1>1. saved \in Nat /\ client \in Clients(saved)
      /\ (client.account # owner => Empty(client))
  BY DEF LibraryTyped
<1>2. HookOnly
  BY Frames, UsesNamed DEF SaveUrl
<1>3. client' = [client EXCEPT !.save = s]
  BY DEF SaveUrl
<1>4. client.save \in Saves(saved)
  BY <1>1, ClientParts
<1>5. s \in Saves(saved) /\ s.item = client.save.item /\ s.on = "sent"
  BY <1>4 DEF Saves
<1> HIDE DEF s
<1>6. client' \in Clients(saved)
  BY <1>1, <1>3, <1>5 DEF Clients
<1>7. Quiet(client, client')
  BY <1>1, <1>3, <1>5 DEF Clients, Quiet, Alike, Marks
<1>8. Empty(client) => Empty(client')
  BY <1>1, <1>3, <1>5 DEF Clients, Empty
<1>9. QED BY <1>1, <1>2, <1>6, <1>7, <1>8, QuietOutcome

LEMMA PullHomeStep ==
    ASSUME LibraryTyped, PullHome
    PROVE  Outcome
<1>1. saved \in Nat /\ client \in Clients(saved) /\ client' = RefreshHome(client)
  BY DEF LibraryTyped, PullHome
<1>2. HookOnly
  BY Frames, UsesNamed DEF PullHome
<1>3. QED BY <1>1, <1>2, RefreshHomeFits, ListOutcome

(* The frame of the steps that empty the archive.                          *)
LEMMA ResetFrame ==
    ASSUME LibraryTyped, Tap("list"), UNCHANGED <<server, session, strays>>,
           seen' = [seen EXCEPT !.mixed = FALSE]
    PROVE  HookOnly
<1>1. left' \in [Uses -> Nat]
  BY Frames, UsesNamed
<1>2. seen' \in [mixed : BOOLEAN, late : BOOLEAN] /\ seen'.late = seen.late
  BY DEF LibraryTyped
<1>3. QED BY <1>1, <1>2 DEF LibraryTyped, HookOnly, server

LEMMA ShowScreenStep ==
    ASSUME LibraryTyped, ShowScreen
    PROVE  Outcome
<1>1. saved \in Nat /\ client \in Clients(saved)
  BY DEF LibraryTyped
<1>2. PICK screen \in {"home", "archive"} :
         client' = ResetArchive([client EXCEPT !.screen = screen])
  BY DEF ShowScreen
<1>3. HookOnly
  BY ResetFrame DEF ShowScreen
<1> DEFINE c == [client EXCEPT !.screen = screen]
<1>4. c \in Clients(saved)
  BY <1>1 DEF Clients
<1>5. Quiet(client, c) /\ (Empty(client) => Empty(c))
  BY <1>1 DEF Clients, Quiet, Alike, Marks, Empty
<1>6. client' = ResetArchive(c)
  BY <1>2
<1> HIDE DEF c
<1>7. ListStep(saved, client, c)
  BY <1>4, <1>5 DEF ListStep
<1>8. ListStep(saved, c, client')
  BY <1>1, <1>4, <1>6, ResetArchiveFits
<1>9. QED BY <1>3, <1>7, <1>8, ListStepTransitive, ListOutcome

LEMMA ChangeQueryStep ==
    ASSUME LibraryTyped, ChangeQuery
    PROVE  Outcome
<1>1. saved \in Nat /\ client \in Clients(saved)
  BY DEF LibraryTyped
<1>2. PICK query \in Filters :
         client' = ResetArchive([client EXCEPT !.query = query])
  BY DEF ChangeQuery, Filters
<1>3. HookOnly
  BY ResetFrame DEF ChangeQuery
<1> DEFINE c == [client EXCEPT !.query = query]
<1>4. c \in Clients(saved)
  BY <1>1 DEF Clients
<1>5. Quiet(client, c) /\ (Empty(client) => Empty(c))
  BY <1>1 DEF Clients, Quiet, Alike, Marks, Empty
<1>6. client' = ResetArchive(c)
  BY <1>2
<1> HIDE DEF c
<1>7. ListStep(saved, client, c)
  BY <1>4, <1>5 DEF ListStep
<1>8. ListStep(saved, c, client')
  BY <1>1, <1>4, <1>6, ResetArchiveFits
<1>9. QED BY <1>3, <1>7, <1>8, ListStepTransitive, ListOutcome

LEMMA PullArchiveStep ==
    ASSUME LibraryTyped, PullArchive
    PROVE  Outcome
<1>1. saved \in Nat /\ client \in Clients(saved) /\ client' = RefreshArchive(client)
  BY DEF LibraryTyped, PullArchive
<1>2. HookOnly
  BY Frames, UsesNamed DEF PullArchive
<1>3. QED BY <1>1, <1>2, RefreshArchiveFits, ListOutcome

LEMMA PullMoreStep ==
    ASSUME LibraryTyped, PullMore
    PROVE  Outcome
<1>1. saved \in Nat /\ client \in Clients(saved) /\ client' = LoadMore(client)
  BY DEF LibraryTyped, PullMore
<1>2. HookOnly
  BY Frames, UsesNamed DEF PullMore
<1>3. QED BY <1>1, <1>2, LoadMoreFits, ListOutcome

LEMMA LeaveStep ==
    ASSUME LibraryTyped, Leave
    PROVE  Outcome
<1>1. saved \in Nat /\ client \in Clients(saved) /\ client' = Abort(client)
  BY DEF LibraryTyped, Leave
<1>2. HookOnly
  BY Frames, UsesNamed DEF Leave
<1>3. QED BY <1>1, <1>2, AbortFits, ListOutcome

-----------------------------------------------------------------------------
(* Sessions.                                                               *)

LEMMA OrphansAreStrays ==
    ASSUME LibraryTyped
    PROVE  strays \cup Orphans \subseteq Strays
<1>1. saved \in Nat /\ client \in Clients(saved) /\ strays \subseteq Strays
  BY DEF LibraryTyped
<1>2. client.writes \in Seq(Writes)
  BY <1>1, ClientParts
<1>3. \A i \in DOMAIN client.writes : client.writes[i].status \in Strays
  <2>1. DOMAIN client.writes = 1 .. Len(client.writes)
    BY <1>2
  <2>2. \A i \in 1 .. Len(client.writes) : client.writes[i] \in Writes
    BY <1>2, ElementOfSeq
  <2>3. QED BY <2>1, <2>2 DEF Writes, Strays
<1> DEFINE V == {<<client.retry, "retry">>, <<client.variant, "variant">>,
                 <<client.save, "save">>, <<client.removal, "removal">>}
<1>4. \A v \in V : v[2] \in Strays
  BY DEF Strays
<1> HIDE DEF V
<1>5. Orphans \subseteq {v[2] : v \in V}
                       \cup {client.writes[i].status : i \in DOMAIN client.writes}
  BY DEF Orphans, V
<1>6. QED BY <1>1, <1>3, <1>4, <1>5

(* A step that begins a session.                                           *)
LEMMA BegunOutcome ==
    ASSUME LibraryTyped, UNCHANGED server,
           strays' \subseteq Strays, left' \in [Uses -> Nat],
           \/ seen' = [seen EXCEPT !.mixed = FALSE]
           \/ seen' = seen,
           session' \in Sessions,
           NEW u \in Users \cup {None}, NEW screen \in {"home", "archive"},
           NEW query \in Filters, client' = Begin(u, screen, query),
           session'.boot # "ready" => u = None,
           u = client.account => ~Known(client.thread)
    PROVE  Outcome
<1>1. saved \in Nat /\ saved' = saved /\ row' = row /\ present' = present
  BY DEF LibraryTyped, server
<1>2. /\ client' \in Clients(saved) /\ client'.account = u /\ Empty(client')
      /\ Marks(client') = {NoThread} /\ client'.retryKey = None /\ ~client'.removed
      /\ client'.intent = NoIntent /\ client'.pages = {} /\ client'.cursor = NoCursor
  <2> DEFINE b == Begin(u, screen, query)
  <2>1. /\ b \in Clients(saved) /\ b.account = u /\ Empty(b)
        /\ Marks(b) = {NoThread} /\ b.retryKey = None /\ ~b.removed
        /\ b.intent = NoIntent /\ b.pages = {} /\ b.cursor = NoCursor
    <3>1. saved \in Nat
      BY <1>1
    <3>2. QED BY ONLY <3>1, u \in Users \cup {None}, query \in Filters,
                      screen \in {"home", "archive"}, BeginFits
  <2>2. client' = b
    OBVIOUS
  <2> HIDE DEF b
  <2>3. QED BY <2>1, <2>2
<1>3. seen' \in [mixed : BOOLEAN, late : BOOLEAN] /\ seen'.late = seen.late
  BY DEF LibraryTyped
<1>4. Begun(client, client')
  BY <1>2 DEF Begun
<1>5. LibraryTyped'
  BY <1>1, <1>2, <1>3 DEF LibraryTyped
<1>6. QED BY <1>1, <1>3, <1>4, <1>5 DEF Outcome, RowMoves

LEMMA LogoutStep ==
    ASSUME LibraryTyped, Logout
    PROVE  Outcome
<1> DEFINE home == "home"
           u == None
<1>1. /\ client' = Begin(u, home, client.query)
      /\ strays' = strays \cup Orphans
      /\ seen' = [seen EXCEPT !.mixed = FALSE]
      /\ session' = [session EXCEPT !.token = None] /\ UNCHANGED server
      /\ client.account # None
  BY DEF Logout, StartSession, Tap
<1>2. left' \in [Uses -> Nat] /\ strays' \subseteq Strays
  BY <1>1, Frames, UsesNamed, OrphansAreStrays DEF Logout
<1>3. session' \in Sessions
  BY <1>1 DEF LibraryTyped, Sessions
<1>4. home \in {"home", "archive"} /\ u \in Users \cup {None} /\ client.query \in Filters
  BY ClientParts DEF LibraryTyped
<1>5. u # client.account /\ u = None
  BY <1>1
<1> HIDE DEF home, u
<1>6. QED BY <1>1, <1>2, <1>3, <1>4, <1>5, BegunOutcome

LEMMA LoginStep ==
    ASSUME LibraryTyped, Login
    PROVE  Outcome
<1> DEFINE home == "home"
<1>1. PICK u \in Users :
         /\ client' = Begin(u, home, client.query)
         /\ session' = [session EXCEPT !.token = u]
         /\ strays' = strays \cup Orphans
         /\ seen' = [seen EXCEPT !.mixed = FALSE]
  BY DEF Login, StartSession
<1>2. left' \in [Uses -> Nat] /\ strays' \subseteq Strays
      /\ client.account = None /\ UNCHANGED server /\ session.boot = "ready"
  BY <1>1, Frames, UsesNamed, OrphansAreStrays DEF Login
<1>3. session' \in Sessions /\ session'.boot = "ready"
  BY <1>1, <1>2 DEF LibraryTyped, Sessions
<1>4. home \in {"home", "archive"} /\ u \in Users \cup {None} /\ client.query \in Filters
  BY ClientParts DEF LibraryTyped
<1>5. ~Known(client.thread)
  BY <1>2, OwnersOnly
<1> HIDE DEF home
<1>6. QED BY <1>1, <1>2, <1>3, <1>4, <1>5, BegunOutcome

LEMMA RestartStep ==
    ASSUME LibraryTyped, Restart
    PROVE  Outcome
<1> DEFINE home == "home"
           all == "all"
           u == None
<1>1. /\ client' = Begin(u, home, all)
      /\ strays' = strays \cup Orphans
      /\ seen' = [seen EXCEPT !.mixed = FALSE]
      /\ session' = [session EXCEPT !.boot = "restoring"] /\ UNCHANGED server
  BY DEF Restart
<1>2. left' \in [Uses -> Nat] /\ strays' \subseteq Strays
  BY <1>1, Frames, UsesNamed, OrphansAreStrays DEF Restart
<1>3. session' \in Sessions
  BY <1>1 DEF LibraryTyped, Sessions
<1>4. home \in {"home", "archive"} /\ u \in Users \cup {None} /\ all \in Filters
  BY DEF Filters
<1>5. u = None /\ (u = client.account => ~Known(client.thread))
  BY OwnersOnly
<1> HIDE DEF home, all, u
<1>6. QED BY <1>1, <1>2, <1>3, <1>4, <1>5, BegunOutcome

(* A step of the start of the app that the hook has no part in.            *)
LEMMA StartOutcome ==
    ASSUME LibraryTyped, UNCHANGED <<server, client, strays, seen>>,
           left' \in [Uses -> Nat], session' \in Sessions, client.account = None
    PROVE  Outcome
<1>1. Served(client, client', row')
  BY DEF Served
<1>2. LibraryTyped'
  BY DEF LibraryTyped, server
<1>3. RowMoves(row, row') /\ RetryKept /\ present' = present /\ seen' = seen
  BY DEF server, RowMoves, RetryKept
<1>4. QED BY <1>1, <1>2, <1>3 DEF Outcome

LEMMA RestoreSessionStep ==
    ASSUME LibraryTyped, RestoreSession
    PROVE  Outcome
<1>1. /\ session \in Sessions /\ session.boot # "ready" /\ client.account = None
      /\ left \in [Uses -> Nat] /\ strays \subseteq Strays
      /\ UNCHANGED <<server, strays, seen>>
  BY DEF LibraryTyped, RestoreSession
<1>2. CASE /\ session' = [session EXCEPT !.boot = "ready"]
           /\ client' = Begin(session.token, client.screen, client.query)
           /\ UNCHANGED left
  <2>1. session' \in Sessions /\ session'.boot = "ready"
        /\ session.token \in Users \cup {None}
    BY <1>1, <1>2 DEF Sessions
  <2>2. client.screen \in {"home", "archive"} /\ client.query \in Filters
    BY ClientParts DEF LibraryTyped
  <2>3. ~Known(client.thread)
    BY <1>1, OwnersOnly
  <2>4. QED BY <1>1, <1>2, <2>1, <2>2, <2>3, BegunOutcome
<1>3. CASE /\ session' = [boot |-> "ready", token |-> None]
           /\ Fault /\ UNCHANGED client
  <2>1. session' \in Sessions /\ left' \in [Uses -> Nat]
    BY <1>3, Frames, UsesNamed DEF Sessions, Fault
  <2>2. QED BY <1>1, <1>3, <2>1, StartOutcome
<1>4. CASE /\ session' = [session EXCEPT !.boot = "failed"]
           /\ Fault /\ UNCHANGED client
  <2>1. session' \in Sessions /\ left' \in [Uses -> Nat]
    BY <1>1, <1>4, Frames, UsesNamed DEF Sessions, Fault
  <2>2. QED BY <1>1, <1>4, <2>1, StartOutcome
<1>5. QED BY <1>2, <1>3, <1>4 DEF RestoreSession

LEMMA ReconnectStep ==
    ASSUME LibraryTyped, Reconnect
    PROVE  Outcome
<1>1. session' \in Sessions /\ client.account = None /\ left' \in [Uses -> Nat]
      /\ UNCHANGED <<server, client, strays, seen>>
  BY DEF LibraryTyped, Reconnect, Sessions
<1>2. QED BY <1>1, StartOutcome

-----------------------------------------------------------------------------
(* What every step does.                                                   *)
LEMMA EveryStep ==
    ASSUME LibraryTyped, Next
    PROVE  Outcome
<1>1. CASE \E phase \in {"done", "failed"} : Summarize(phase)
  BY <1>1, SummarizeStep
<1>2. CASE FinishVariant
  BY <1>2, FinishVariantStep
<1>3. CASE Serve
  BY <1>3, ServeHomeStep, ServePageStep, ServeDetailStep, ServeStatusStep,
     ServeReadStep, ServeRetryStep, ServeVariantStep, ServeSaveStep,
     ServeRemovalStep, ServeStrayStep DEF Serve
<1>4. CASE Hear
  BY <1>4, HearHomeStep, HearPageStep, HearDetailStep, HearStatusStep,
     HearReadStep, HearRetryStep, HearVariantStep, HearSaveStep,
     HearRemovalStep DEF Hear
<1>5. CASE Lose
  BY <1>5, LoseHomeStep, LosePageStep, LoseDetailStep, LoseStatusStep,
     LoseReadStep, LoseRetryStep, LoseVariantStep, LoseSaveStep,
     LoseRemovalStep DEF Lose
<1>6. CASE User
  BY <1>6, OpenFocusStep, CloseFocusStep, MarkReadStep, RetrySummaryStep,
     ChooseDensityStep, ReloadDetailStep, RemoveFocusStep, SaveUrlStep,
     PullHomeStep, ShowScreenStep, ChangeQueryStep, PullArchiveStep,
     PullMoreStep, LeaveStep, LogoutStep, LoginStep, RestartStep DEF User
<1>7. CASE TimerFires \/ Poll \/ Reconcile \/ Return
  BY <1>7, TimerFiresStep, PollStep, ReconcileStep, ReturnStep
<1>8. CASE RestoreSession \/ Reconnect
  BY <1>8, RestoreSessionStep, ReconnectStep
<1>9. QED BY <1>1, <1>2, <1>3, <1>4, <1>5, <1>6, <1>7, <1>8 DEF Next

-----------------------------------------------------------------------------
(* The theorems on types and sessions.                                     *)

LEMMA InitTyped == Init => LibraryTyped
<1> SUFFICES ASSUME Init PROVE LibraryTyped
  OBVIOUS
<1> DEFINE home == "home"
           all == "all"
           u == owner
<1>1. saved \in Nat /\ saved <= MaxRow /\ Focus <= saved /\ present = 1 .. saved
  BY LibraryAssumption, FocusAssumption DEF Init
<1>2. row \in Rows
  <2>1. 1 \in Generations /\ 0 \in Documents /\ 1 \in Documents
    BY GenerationAssumption DEF Generations, Documents
  <2>2. QED BY <2>1, ItemDefaults DEF Init, Rows, Phases, ReadStatus
<1>3. owner \in Users /\ Bounds \subseteq [Uses -> Nat]
  BY LibraryAssumption
<1>4. u \in Users \cup {None} /\ home \in {"home", "archive"} /\ all \in Filters
  BY <1>3 DEF Filters
<1>5. client = Begin(u, home, all)
  BY DEF Init
<1>6. u = owner
  OBVIOUS
<1> HIDE DEF u, home, all
<1>7. client \in Clients(saved) /\ client.account = owner
  BY <1>1, <1>4, <1>5, <1>6, BeginFits
<1>8. session \in Sessions /\ session.boot = "ready" /\ strays = {}
      /\ left \in Bounds /\ seen \in [mixed : BOOLEAN, late : BOOLEAN]
  BY <1>3 DEF Init, Sessions
<1>9. QED BY <1>1, <1>2, <1>3, <1>7, <1>8 DEF LibraryTyped

LEMMA TypedStutters ==
    ASSUME LibraryTyped, UNCHANGED vars
    PROVE  LibraryTyped'
  BY DEF LibraryTyped, vars

(* The invariant of types holds.                                           *)
THEOREM LibraryInductive == Spec => []LibraryTyped
<1>1. Init => LibraryTyped
  BY InitTyped
<1>2. LibraryTyped /\ [Next]_vars => LibraryTyped'
  BY EveryStep, TypedStutters DEF Outcome
<1>3. QED BY <1>1, <1>2, PTL DEF Spec

LEMMA TypedIsTypeOK == LibraryTyped => TypeOK
<1> SUFFICES ASSUME LibraryTyped PROVE TypeOK
  OBVIOUS
<1>1. /\ row \in Rows /\ saved \in Nat /\ saved <= MaxRow /\ present \subseteq 1 .. saved
      /\ client \in Clients(saved) /\ session \in Sessions /\ left \in [Uses -> Nat]
  BY DEF LibraryTyped
<1>2. saved \in 0 .. MaxRow
  BY <1>1, LibraryAssumption
<1>3. /\ client.thread \in Threads /\ client.intent \in Intents
      /\ client.home \in Lists(saved) /\ client.archive \in Lists(saved)
      /\ client.details \in SUBSET DetailRequests
      /\ client.retryKey \in {None, "unknown", "known"}
  BY <1>1, ClientParts
<1>4. client.intent.status \in ReadStatus \cup {None}
  BY <1>3 DEF Intents, NoIntent
<1>5. \A d \in client.details : d.waits \subseteq {"open", "poll"}
  BY <1>3 DEF DetailRequests, Waits
<1>6. /\ Range(client.home) \cup Range(client.archive) \subseteq 1 .. saved
      /\ IsInjective(client.home) /\ IsInjective(client.archive)
  BY <1>1, <1>3, ListParts
<1>7. session.token \in Users \cup {None}
  BY <1>1 DEF Sessions
<1>8. QED BY <1>1, <1>2, <1>3, <1>4, <1>5, <1>6, <1>7 DEF TypeOK

(* The values are in range, and neither list ever shows an article twice.  *)
THEOREM LibraryTypeOK == Spec => []TypeOK
  BY LibraryInductive, TypedIsTypeOK, PTL

(* Whatever is in flight when the owner leaves, or is served after that,   *)
(* another account, or none, has nothing of it.                            *)
THEOREM SessionsApart == Spec => []SessionsDoNotMix
<1>1. LibraryTyped => SessionsDoNotMix
  BY OwnersOnly DEF SessionsDoNotMix, Empty
<1>2. QED BY LibraryInductive, <1>1, PTL

-----------------------------------------------------------------------------
(* One history.  The row moves forward, and every answer in flight is a    *)
(* moment of it: of two, the one with the later updatedAt has no older     *)
(* generation and no older document.                                       *)
Before(x, y) == x.at <= y.at => x.gen <= y.gen /\ x.res <= y.res

(* An answer has the document it names or none, and never a stale one.     *)
Answer(x) == x.doc = (IF x.loaded THEN x.res ELSE 0) /\ ~x.stale

(* What has ended at the row's generation has ended as the row has.        *)
EndedAlike(x, r) ==
    x.gen = r.gen /\ ~IsProcessing(x) => x.phase = r.phase /\ x.res = r.res

Moments == Marks(client) \cup {row}

AnswersOrdered ==
    /\ row.at >= 1 /\ row.res <= row.gen
    /\ \A x, y \in Moments : Before(x, y)
    /\ \A x \in Marks(client) : x.at <= row.at /\ Answer(x) /\ EndedAlike(x, row)

(* The thread was read at one moment and its document at that or before.   *)
Follows(t, x) ==
    /\ t.at <= x.at => t.gen <= x.gen /\ t.doc <= x.res
    /\ x.at <= t.at => x.gen <= t.gen

Labelled(t) == t.loaded \/ t.doc # 0 => t.doc = t.res

ShowsRow(t, r) ==
    t.gen = r.gen /\ ~IsProcessing(t)
        => /\ t.phase = r.phase
           /\ t.loaded /\ ~t.stale => t.doc = r.res

InOrder(t, moments, r) ==
    /\ t.at <= r.at /\ Labelled(t) /\ ShowsRow(t, r)
    /\ \A x \in moments : Follows(t, x)

ThreadOrdered == InOrder(client.thread, Moments, row)

LEMMA MarksTyped ==
    ASSUME LibraryTyped
    PROVE  Marks(client) \subseteq Threads
<1>1. saved \in Nat /\ client \in Clients(saved)
  BY DEF LibraryTyped
<1>2. /\ \A h \in client.homes : h.item \in Threads
      /\ \A p \in client.pages : p.item \in Threads
      /\ \A d \in client.details : d.item \in Threads
  <2>1. /\ client.homes \in SUBSET HomeRequests(saved)
        /\ client.pages \in SUBSET PageRequests(saved)
        /\ client.details \in SUBSET DetailRequests
    BY <1>1, ClientParts
  <2>2. QED BY <2>1 DEF HomeRequests, PageRequests, DetailRequests
<1>3. \A i \in 1 .. Len(client.writes) : client.writes[i].item \in Threads
  <2>1. client.writes \in Seq(Writes)
    BY <1>1, ClientParts
  <2>2. \A i \in 1 .. Len(client.writes) : client.writes[i] \in Writes
    BY <2>1, ElementOfSeq
  <2>3. QED BY <2>2 DEF Writes
<1>4. /\ client.status.item \in Threads /\ client.retry.item \in Threads
      /\ client.variant.item \in Threads /\ client.save.item \in Threads
  <2>1. /\ client.status \in Requests /\ client.retry \in Requests
        /\ client.variant \in Requests /\ client.save \in Saves(saved)
    BY <1>1, ClientParts
  <2>2. QED BY <2>1 DEF Requests, Saves
<1>5. QED BY <1>2, <1>3, <1>4, ItemDefaults DEF Marks

(* The fields compared are numbers.                                        *)
LEMMA Numbers ==
    /\ \A x \in Threads : x.at \in Nat /\ x.gen \in Nat /\ x.res \in Nat /\ x.doc \in Nat
                          /\ x.loaded \in BOOLEAN /\ x.stale \in BOOLEAN
    /\ \A r \in Rows : r.at \in Nat /\ r.gen \in Nat /\ r.res \in Nat /\ r.gen >= 1
<1>1. Documents \subseteq Nat /\ Generations \subseteq Documents
  BY ItemDefaults
<1>2. \A g \in Generations : g >= 1
  BY DEF Generations
<1>3. QED BY <1>1, <1>2 DEF Threads, Rows

(* What the server answers now.                                            *)
LEMMA ItemsOfRow ==
    ASSUME NEW r \in Rows, NEW x \in Items(r)
    PROVE  /\ x.gen = r.gen /\ x.res = r.res /\ x.phase = r.phase /\ x.at = r.at
           /\ Answer(x)
<1>1. CASE x = ListItem(r)
  BY <1>1 DEF ListItem, Answer
<1>2. CASE x = RowItem(r)
  BY <1>2 DEF RowItem, ListItem, Answer
<1>3. CASE x = DetailItem(r)
  BY <1>3 DEF DetailItem, RowItem, ListItem, Answer
<1>4. QED BY <1>1, <1>2, <1>3 DEF Items

(* What is in flight after a step was before it, or is of the row.         *)
LEMMA MarksMove ==
    ASSUME Outcome
    PROVE  /\ NoThread \in Marks(client)
           /\ Marks(client') \subseteq Marks(client) \cup Items(row')
<1>1. NoThread \in Marks(client)
  BY DEF Marks
<1>2. QED BY <1>1 DEF Outcome, Heard, Served, Begun

(* A moment of the past and the row after a step.                          *)
LEMMA PastAndRow ==
    ASSUME NEW r \in Rows, NEW s \in Rows, RowMoves(r, s), r.res <= r.gen,
           NEW x, x.at \in Nat, x.gen \in Nat, x.res \in Nat,
           x.at <= r.at, Before(x, r), Before(r, x)
    PROVE  /\ Before(x, s) /\ Before(s, x) /\ x.at <= s.at
           /\ r.at <= s.at /\ s.res <= s.gen /\ r.gen <= s.gen /\ r.res <= s.res
<1>1. /\ r.at \in Nat /\ r.gen \in Nat /\ r.res \in Nat
      /\ s.at \in Nat /\ s.gen \in Nat /\ s.res \in Nat
  BY Numbers
<1>2. CASE s.gen = r.gen /\ s.res = r.res /\ s.phase = r.phase /\ s.at = r.at
  BY <1>1, <1>2 DEF Before
<1>3. CASE /\ s.at > r.at /\ s.gen >= r.gen
           /\ s.res = r.res \/ (s.res = s.gen /\ IsProcessing(r))
  BY <1>1, <1>3 DEF Before
<1>4. QED BY <1>2, <1>3 DEF RowMoves

LEMMA AnswersStep ==
    ASSUME LibraryTyped, AnswersOrdered, Outcome
    PROVE  AnswersOrdered'
<1>1. row \in Rows /\ row' \in Rows /\ RowMoves(row, row')
      /\ Marks(client) \subseteq Threads
  BY MarksTyped DEF Outcome, LibraryTyped
<1>2. /\ row.at \in Nat /\ row.gen \in Nat /\ row.res \in Nat
      /\ row'.at \in Nat /\ row'.gen \in Nat /\ row'.res \in Nat
      /\ \A x \in Marks(client) : x.at \in Nat /\ x.gen \in Nat /\ x.res \in Nat
  BY <1>1, Numbers
<1>3. /\ row.at >= 1 /\ row.res <= row.gen
      /\ \A x \in Marks(client) : /\ Before(x, row) /\ Before(row, x) /\ x.at <= row.at
                                  /\ Answer(x) /\ EndedAlike(x, row)
      /\ \A x, y \in Marks(client) : Before(x, y)
  BY DEF AnswersOrdered, Moments
<1>4. /\ row'.at >= 1 /\ row'.res <= row'.gen
      /\ row.at <= row'.at /\ row.gen <= row'.gen
  <2>1. Before(row, row)
    BY <1>2 DEF Before
  <2>2. QED BY <1>1, <1>2, <1>3, <2>1, PastAndRow
<1>5. \A x \in Marks(client) : Before(x, row') /\ Before(row', x) /\ x.at <= row'.at
  BY <1>1, <1>2, <1>3, PastAndRow
<1>6. \A x \in Marks(client) : EndedAlike(x, row')
  <2>1. TAKE x \in Marks(client)
  <2>2. x.gen <= row.gen
    BY <1>2, <1>3 DEF Before
  <2>3. QED BY <1>1, <1>2, <1>3, <2>2 DEF EndedAlike, RowMoves, IsProcessing
<1>7. \A x \in Items(row') : /\ x.gen = row'.gen /\ x.res = row'.res /\ x.at = row'.at
                             /\ x.phase = row'.phase /\ Answer(x)
  BY <1>1, ItemsOfRow
<1>8. \A x \in Marks(client') : x.at <= row'.at /\ Answer(x) /\ EndedAlike(x, row')
  <2>1. TAKE x \in Marks(client')
  <2>2. CASE x \in Marks(client)
    BY <1>3, <1>5, <1>6, <2>2
  <2>3. CASE x \in Items(row')
    BY <1>2, <1>7, <2>3 DEF EndedAlike
  <2>4. QED BY <2>2, <2>3, MarksMove
<1> DEFINE now == Marks(client') \cup {row'}
<1>9. \A x \in now : x \in Marks(client)
                     \/ (x.gen = row'.gen /\ x.res = row'.res /\ x.at = row'.at)
  BY <1>7, MarksMove
<1>10. \A x, y \in now : Before(x, y)
  <2> HIDE DEF now
  <2>1. TAKE x, y \in now
  <2>2. CASE x \in Marks(client) /\ y \in Marks(client)
    BY <1>3, <2>2
  <2>3. CASE x \in Marks(client) /\ y.gen = row'.gen /\ y.res = row'.res /\ y.at = row'.at
    BY <1>5, <2>3 DEF Before
  <2>4. CASE y \in Marks(client) /\ x.gen = row'.gen /\ x.res = row'.res /\ x.at = row'.at
    BY <1>5, <2>4 DEF Before
  <2>5. CASE /\ x.gen = row'.gen /\ x.res = row'.res
             /\ y.gen = row'.gen /\ y.res = row'.res
    BY <1>2, <2>5 DEF Before
  <2>6. QED BY <1>9, <2>2, <2>3, <2>4, <2>5
<1>11. QED BY <1>4, <1>8, <1>10 DEF AnswersOrdered, Moments

-----------------------------------------------------------------------------
(* What mergeThread makes of a thread and an answer: the thread, or        *)
(* something read at the answer's moment that takes nothing back.          *)
Newer(t, x, m) ==
    /\ m.gen = x.gen /\ m.at = x.at /\ m.phase = x.phase
    /\ m.doc <= x.res /\ Labelled(m)
    /\ m.loaded /\ ~m.stale => m.doc = x.res
    /\ Known(t) => t.gen <= m.gen /\ t.doc <= m.doc /\ (m.gen = t.gen => t.at <= m.at)

LEMMA MergeForward ==
    ASSUME NEW t \in Threads, NEW x \in Threads,
           Labelled(t), Follows(t, x), Answer(x)
    PROVE  /\ Merge(t, x) = t \/ Newer(t, x, Merge(t, x))
           /\ Known(t) => LET m == Merge(t, StatusItem(t, x))
                          IN  m = t \/ Newer(t, x, m)
<1>1. /\ t.at \in Nat /\ t.gen \in Nat /\ t.res \in Nat /\ t.doc \in Nat
      /\ x.at \in Nat /\ x.gen \in Nat /\ x.res \in Nat /\ x.doc \in Nat
      /\ t.loaded \in BOOLEAN /\ t.stale \in BOOLEAN /\ x.loaded \in BOOLEAN
  BY Numbers
<1> DEFINE k == KeepDocument(t, x)
           i == StatusItem(t, x)
           l == KeepDocument(t, i)
<1>2. /\ k.gen = x.gen /\ k.at = x.at /\ k.phase = x.phase /\ k.loaded = TRUE
      /\ k.res = t.res /\ k.doc = t.doc /\ (x.res > t.res => k.stale)
  BY DEF KeepDocument, Threads
<1>3. /\ i \in Threads /\ i.gen = x.gen /\ i.at = x.at /\ i.phase = x.phase
      /\ i.res = x.res /\ i.loaded = FALSE /\ i.doc = t.doc
  BY MergeTyped DEF StatusItem, Threads
<1> HIDE DEF i
<1>4. /\ l.gen = x.gen /\ l.at = x.at /\ l.phase = x.phase /\ l.loaded = TRUE
      /\ l.res = t.res /\ l.doc = t.doc /\ (x.res > t.res => l.stale)
  BY <1>3 DEF KeepDocument, Threads
<1>5. ASSUME Known(t), ~IsOlder(x, t)
      PROVE  /\ t.gen <= x.gen /\ t.at <= x.at /\ t.doc <= x.res
  BY <1>1, <1>5 DEF IsOlder, Follows
<1>6. Merge(t, x) = IF ~Known(t) THEN x ELSE IF IsOlder(x, t) THEN t
                    ELSE IF ~x.loaded /\ (t.loaded \/ t.doc # 0) THEN k ELSE x
  BY DEF Merge
<1>7. Known(t) => Merge(t, i) = IF IsOlder(x, t) THEN t
                                ELSE IF t.loaded \/ t.doc # 0 THEN l ELSE i
  BY <1>3 DEF Merge, IsOlder
<1> HIDE DEF k, l
<1>8. ~Known(t) => Newer(t, x, x)
  BY <1>1 DEF Newer, Labelled, Answer
<1>9. ASSUME Known(t), ~IsOlder(x, t)
      PROVE  /\ ~x.loaded /\ (t.loaded \/ t.doc # 0) => Newer(t, x, k)
             /\ ~(~x.loaded /\ (t.loaded \/ t.doc # 0)) => Newer(t, x, x)
  <2>1. t.gen <= x.gen /\ t.at <= x.at /\ t.doc <= x.res
    BY <1>5, <1>9
  <2>2. ASSUME t.loaded \/ t.doc # 0 PROVE Newer(t, x, k)
    BY <1>1, <1>2, <2>1, <2>2 DEF Newer, Labelled
  <2>3. ASSUME x.loaded \/ (~t.loaded /\ t.doc = 0) PROVE Newer(t, x, x)
    BY <1>1, <2>1, <2>3 DEF Newer, Labelled, Answer
  <2>4. QED BY <2>2, <2>3
<1>10. ASSUME Known(t), ~IsOlder(x, t)
       PROVE  /\ t.loaded \/ t.doc # 0 => Newer(t, x, l)
              /\ ~(t.loaded \/ t.doc # 0) => Newer(t, x, i)
  <2>1. t.gen <= x.gen /\ t.at <= x.at /\ t.doc <= x.res
    BY <1>5, <1>10
  <2>2. ASSUME t.loaded \/ t.doc # 0 PROVE Newer(t, x, l)
    BY <1>1, <1>4, <2>1, <2>2 DEF Newer, Labelled
  <2>3. ASSUME ~t.loaded, t.doc = 0 PROVE Newer(t, x, i)
    BY <1>1, <1>3, <2>1, <2>3 DEF Newer, Labelled
  <2>4. QED BY <2>2, <2>3
<1>11. QED BY <1>6, <1>7, <1>8, <1>9, <1>10 DEF i

LEMMA MomentsTyped ==
    ASSUME LibraryTyped
    PROVE  /\ client.thread \in Threads /\ row \in Rows
           /\ \A x \in Moments : x.at \in Nat /\ x.gen \in Nat /\ x.res \in Nat
<1>1. row \in Rows /\ saved \in Nat /\ client \in Clients(saved)
  BY DEF LibraryTyped
<1>2. client.thread \in Threads
  BY <1>1, ClientParts
<1>3. QED BY <1>1, <1>2, MarksTyped, Numbers DEF Moments

(* What the thread becomes, the user's choice apart, when it hears.        *)
LEMMA ThreadHears ==
    ASSUME LibraryTyped, AnswersOrdered, ThreadOrdered, Heard(client, client')
    PROVE  \E u \in Threads :
                  /\ Alike(u, client'.thread)
                  /\ \/ u = client.thread
                     \/ \E x \in Marks(client) : Newer(client.thread, x, u)
<1>1. client.thread \in Threads /\ Marks(client) \subseteq Threads
  BY MomentsTyped, MarksTyped
<1>2. ASSUME NEW x \in Marks(client)
      PROVE  /\ Merge(client.thread, x) = client.thread
                \/ Newer(client.thread, x, Merge(client.thread, x))
             /\ Known(client.thread) =>
                  LET m == Merge(client.thread, StatusItem(client.thread, x))
                  IN  m = client.thread \/ Newer(client.thread, x, m)
  <2>1. Labelled(client.thread) /\ Follows(client.thread, x) /\ Answer(x)
    BY DEF ThreadOrdered, InOrder, AnswersOrdered, Moments
  <2>2. QED BY <1>1, <2>1, MergeForward
<1>3. \A x \in Marks(client) :
         /\ Merge(client.thread, x) \in Threads
         /\ Merge(client.thread, StatusItem(client.thread, x)) \in Threads
  BY <1>1, MergeTyped
<1>4. QED BY <1>1, <1>2, <1>3 DEF Heard

LEMMA HeardInOrder ==
    ASSUME LibraryTyped, AnswersOrdered, ThreadOrdered, Heard(client, client')
    PROVE  InOrder(client'.thread, Moments, row)
<1>1. PICK u \in Threads :
         /\ Alike(u, client'.thread)
         /\ \/ u = client.thread
            \/ \E x \in Marks(client) : Newer(client.thread, x, u)
  BY ThreadHears
<1>2. ASSUME NEW x \in Marks(client), Newer(client.thread, x, u)
      PROVE  InOrder(u, Moments, row)
  <2>1. /\ x \in Moments /\ x.at <= row.at /\ EndedAlike(x, row)
        /\ \A y \in Moments : Before(x, y) /\ Before(y, x)
    BY DEF AnswersOrdered, Moments
  <2>2. /\ u.gen = x.gen /\ u.at = x.at /\ u.phase = x.phase /\ u.doc <= x.res
        /\ Labelled(u) /\ (u.loaded /\ ~u.stale => u.doc = x.res)
    BY <1>2 DEF Newer
  <2>3. ShowsRow(u, row)
    BY <2>1, <2>2 DEF ShowsRow, EndedAlike, IsProcessing
  <2>4. \A y \in Moments : Follows(u, y)
    <3>1. TAKE y \in Moments
    <3>2. x.res \in Nat /\ y.res \in Nat /\ u.doc \in Nat
      BY <2>1, MomentsTyped, Numbers
    <3>3. x.res <= y.res => u.doc <= y.res
      BY <2>2, <3>2
    <3>4. QED BY <2>1, <2>2, <3>3 DEF Follows, Before
  <2>5. QED BY <2>1, <2>2, <2>3, <2>4 DEF InOrder
<1>3. InOrder(u, Moments, row)
  BY <1>1, <1>2 DEF ThreadOrdered
<1>4. QED BY <1>1, <1>3 DEF InOrder, Alike, Labelled, ShowsRow, Follows, IsProcessing

(* The row moves on and answers of it are sent.                            *)
LEMMA OrderKept ==
    ASSUME LibraryTyped, AnswersOrdered, Outcome, NEW t \in Threads,
           InOrder(t, Moments, row)
    PROVE  InOrder(t, Marks(client') \cup {row'}, row')
<1>1. row \in Rows /\ row' \in Rows /\ RowMoves(row, row')
  BY DEF Outcome, LibraryTyped
<1>2. /\ row.at \in Nat /\ row.gen \in Nat /\ row.res \in Nat
      /\ row'.at \in Nat /\ row'.gen \in Nat /\ row'.res \in Nat
      /\ t.at \in Nat /\ t.gen \in Nat /\ t.doc \in Nat
  BY <1>1, Numbers
<1>3. /\ t.at <= row.at /\ Labelled(t) /\ ShowsRow(t, row)
      /\ \A x \in Marks(client) : Follows(t, x)
      /\ Follows(t, row)
  BY DEF InOrder, Moments
<1>4. row.at <= row'.at /\ row.gen <= row'.gen /\ row.res <= row'.res
  <2>1. row.res <= row.gen /\ Before(row, row)
    BY DEF AnswersOrdered, Moments
  <2>2. QED BY <1>1, <1>2, <2>1, PastAndRow
<1>5. t.gen <= row.gen /\ t.doc <= row.res
  BY <1>3 DEF Follows
<1>6. Follows(t, row') /\ t.at <= row'.at
  BY <1>1, <1>2, <1>3, <1>4, <1>5 DEF Follows, RowMoves
<1>7. ShowsRow(t, row')
  BY <1>1, <1>2, <1>3, <1>5 DEF ShowsRow, RowMoves, IsProcessing
<1>8. \A x \in Items(row') : Follows(t, x)
  BY <1>1, <1>6, ItemsOfRow DEF Follows
<1>9. QED BY <1>3, <1>6, <1>7, <1>8, MarksMove DEF InOrder

LEMMA ThreadStep ==
    ASSUME LibraryTyped, AnswersOrdered, ThreadOrdered, Outcome
    PROVE  ThreadOrdered'
<1>1. client'.thread \in Threads /\ row' \in Rows
  <2>1. saved' \in Nat /\ client' \in Clients(saved') /\ row' \in Rows
    BY DEF Outcome, LibraryTyped
  <2>2. QED BY <2>1, ClientParts
<1>2. CASE Heard(client, client') \/ Served(client, client', row')
  <2>1. InOrder(client'.thread, Moments, row)
    BY <1>2, HeardInOrder DEF Served, ThreadOrdered
  <2>2. QED BY <1>1, <2>1, OrderKept DEF ThreadOrdered, Moments
<1>3. CASE Begun(client, client')
  <2>1. client'.thread = NoThread /\ Marks(client') = {NoThread}
    BY <1>3 DEF Begun, Empty
  <2>2. /\ row'.at \in Nat /\ row'.gen \in Nat /\ row'.gen >= 1 /\ row'.res \in Nat
        /\ row'.at >= 1
    BY <1>1, Numbers, AnswersStep DEF AnswersOrdered
  <2>3. QED BY <2>1, <2>2
        DEF ThreadOrdered, InOrder, Moments, Labelled, ShowsRow, Follows, NoThread
<1>4. QED BY <1>2, <1>3 DEF Outcome

(* No answer, however late, takes the thread back.                         *)
LEMMA ForwardStep ==
    ASSUME LibraryTyped, AnswersOrdered, ThreadOrdered, Outcome,
           Known(client.thread), client'.account = client.account
    PROVE  /\ client'.thread.gen >= client.thread.gen
           /\ client'.thread.doc >= client.thread.doc
           /\ client'.thread.gen = client.thread.gen
                => client'.thread.at >= client.thread.at
<1>1. client.thread \in Threads
  BY MomentsTyped
<1>2. /\ client.thread.gen \in Nat /\ client.thread.doc \in Nat
      /\ client.thread.at \in Nat
  BY <1>1, Numbers
<1>3. ~Begun(client, client')
  BY DEF Begun
<1>4. CASE Served(client, client', row')
  BY <1>2, <1>4 DEF Served
<1>5. CASE Heard(client, client')
  <2>1. PICK u \in Threads :
           /\ Alike(u, client'.thread)
           /\ \/ u = client.thread
              \/ \E x \in Marks(client) : Newer(client.thread, x, u)
    BY <1>5, ThreadHears
  <2>2. u.gen \in Nat /\ u.doc \in Nat /\ u.at \in Nat
    BY Numbers
  <2>3. /\ u.gen >= client.thread.gen /\ u.doc >= client.thread.doc
        /\ u.gen = client.thread.gen => u.at >= client.thread.at
    BY <1>2, <2>1, <2>2 DEF Newer
  <2>4. QED BY <2>1, <2>3 DEF Alike
<1>6. QED BY <1>3, <1>4, <1>5 DEF Outcome

-----------------------------------------------------------------------------
(* Retries.  The row's generation changes only when a retry is served, and *)
(* the app is told of it, or the key is known to the server.               *)
AtGeneration(c, g) ==
    \/ c.thread.gen = g
    \/ c.thread.gen = 0 /\ \A x \in Marks(c) : x.gen \in {0, g}

RetryAnswered ==
    /\ client.retry.on # "no" => client.retryKey # None
    /\ ~seen.late /\ Exists =>
         /\ client.retry.on = "ok" => client.retry.item.gen = row.gen
         /\ client.retry.on = "refused" => client.retryKey # "known"
         /\ ~client.removed /\ client.retryKey # "known"
              => AtGeneration(client, row.gen)

LEMMA GenerationKept ==
    ASSUME LibraryTyped, AnswersOrdered, ThreadOrdered, Outcome,
           row'.gen = row.gen, AtGeneration(client, row.gen)
    PROVE  AtGeneration(client', row'.gen)
<1>1. client.thread \in Threads /\ row \in Rows /\ row' \in Rows
  BY MomentsTyped DEF Outcome, LibraryTyped
<1>2. /\ client.thread.gen \in Nat /\ row.gen \in Nat /\ row.gen >= 1
      /\ \A x \in Marks(client) : x.gen \in Nat
  BY <1>1, Numbers, MarksTyped
<1>3. CASE Heard(client, client')
  <2>1. PICK u \in Threads :
           /\ Alike(u, client'.thread)
           /\ \/ u = client.thread
              \/ \E x \in Marks(client) : Newer(client.thread, x, u)
    BY <1>3, ThreadHears
  <2>2. Marks(client') \subseteq Marks(client)
    BY <1>3 DEF Heard
  <2>3. CASE u = client.thread
    BY <2>1, <2>2, <2>3 DEF AtGeneration, Alike
  <2>4. ASSUME NEW x \in Marks(client), Newer(client.thread, x, u)
        PROVE  AtGeneration(client', row'.gen)
    <3>1. x.gen <= row.gen /\ x.gen \in Nat
      <4>1. x.at <= row.at /\ Before(x, row)
        BY DEF AnswersOrdered, Moments
      <4>2. QED BY <1>2, <4>1 DEF Before
    <3>2. u.gen = x.gen /\ (Known(client.thread) => client.thread.gen <= u.gen)
      BY <2>4 DEF Newer
    <3>3. client'.thread.gen = u.gen
      BY <2>1 DEF Alike
    <3>4. CASE client.thread.gen = row.gen
      BY <1>2, <3>1, <3>2, <3>3, <3>4 DEF AtGeneration, Known
    <3>5. CASE client.thread.gen = 0 /\ \A y \in Marks(client) : y.gen \in {0, row.gen}
      BY <2>2, <3>2, <3>3, <3>5 DEF AtGeneration
    <3>6. QED BY <3>4, <3>5 DEF AtGeneration
  <2>5. QED BY <2>1, <2>3, <2>4
<1>4. CASE Served(client, client', row')
  <2>1. \A x \in Items(row') : x.gen = row'.gen
    BY <1>1, ItemsOfRow
  <2>2. QED BY <1>4, <2>1 DEF Served, AtGeneration
<1>5. CASE Begun(client, client')
  BY <1>5 DEF Begun, Empty, AtGeneration, NoThread
<1>6. QED BY <1>3, <1>4, <1>5 DEF Outcome

(* A session that begins has no retry.                                     *)
LEMMA BegunKeeps ==
    ASSUME Begun(client, client')
    PROVE  RetryAnswered'
<1>1. client'.retry.on = "no" /\ AtGeneration(client', row'.gen)
  BY DEF Begun, Empty, NoRequest, AtGeneration, NoThread
<1>2. QED BY <1>1 DEF RetryAnswered

(* The step that keeps the request, the key and the generation.            *)
LEMMA RetryKeptStep ==
    ASSUME LibraryTyped, AnswersOrdered, ThreadOrdered, RetryAnswered, Outcome,
           RetryKept
    PROVE  RetryAnswered'
<1>1. CASE Begun(client, client')
  BY <1>1, BegunKeeps
<1>2. CASE ~Begun(client, client')
  <2>1. client.removed => client'.removed
    BY <1>2 DEF Outcome, Heard, Served
  <2>2. (Exists' => Exists) /\ (seen.late => seen'.late)
    BY DEF Outcome, Exists
  <2>3. AtGeneration(client, row.gen) => AtGeneration(client', row'.gen)
    BY GenerationKept DEF RetryKept
  <2>4. QED BY <2>1, <2>2, <2>3 DEF RetryAnswered, RetryKept
<1>3. QED BY <1>1, <1>2

LEMMA ServeRetryKeeps ==
    ASSUME LibraryTyped, AnswersOrdered, ThreadOrdered, RetryAnswered, Outcome,
           ServeRetry
    PROVE  RetryAnswered'
<1>1. /\ saved \in Nat /\ client \in Clients(saved) /\ client.retry \in Requests
      /\ client.retry.on = "sent" /\ client.retryKey # None
      /\ UNCHANGED <<present, seen>>
  BY ClientParts DEF LibraryTyped, ServeRetry, RetryAnswered
<1>2. RowItem(row').gen = row'.gen /\ RowItem(row).gen = row.gen
  BY DEF RowItem, ListItem
<1>3. CASE /\ client' = [client EXCEPT !.retryKey = "known", !.retry =
                            [on |-> "ok", item |-> RowItem(row')]]
  <2>1. client'.retryKey = "known" /\ client'.retry.on = "ok"
        /\ client'.retry.item = RowItem(row')
    BY <1>1, <1>3 DEF Clients
  <2>2. "known" # None
    BY DEF None
  <2>3. QED BY <1>2, <2>1, <2>2 DEF RetryAnswered
<1>4. CASE /\ client' = [client EXCEPT !.retry = [on |-> "ok", item |-> RowItem(row)]]
           /\ UNCHANGED row
  <2>1. client'.retryKey = client.retryKey /\ client'.retry.on = "ok"
        /\ client'.retry.item = RowItem(row) /\ client'.removed = client.removed
    BY <1>1, <1>4 DEF Clients
  <2>2. AtGeneration(client, row.gen) => AtGeneration(client', row'.gen)
    BY <1>4, GenerationKept
  <2>3. QED BY <1>1, <1>2, <1>4, <2>1, <2>2 DEF RetryAnswered, Exists
<1>5. CASE /\ Exists => client.retryKey # "known"
           /\ client' = [client EXCEPT !.retry.on = "refused"]
           /\ UNCHANGED row
  <2>1. client'.retryKey = client.retryKey /\ client'.retry.on = "refused"
        /\ client'.removed = client.removed
    BY <1>1, <1>5 DEF Clients, Requests
  <2>2. AtGeneration(client, row.gen) => AtGeneration(client', row'.gen)
    BY <1>5, GenerationKept
  <2>3. QED BY <1>1, <1>5, <2>1, <2>2 DEF RetryAnswered, Exists
<1>6. QED BY <1>3, <1>4, <1>5 DEF ServeRetry

LEMMA HearRetryKeeps ==
    ASSUME LibraryTyped, AnswersOrdered, ThreadOrdered, RetryAnswered, Outcome,
           HearRetry
    PROVE  RetryAnswered'
<1>1. /\ client.retry.on \in {"ok", "refused"}
      /\ UNCHANGED <<row, present, seen>>
  BY DEF HearRetry, server
<1>2. /\ client'.retry = NoRequest /\ client'.retryKey = None
      /\ client'.removed = client.removed
      /\ Known(client.retry.item) /\ ~client.removed
           => client'.thread.gen = Merge(client.thread, client.retry.item).gen
  BY HearRetryStep
<1>3. ASSUME ~seen.late, Exists, ~client.removed PROVE AtGeneration(client', row'.gen)
  <2>1. CASE client.retry.on = "refused"
    <3>1. AtGeneration(client, row.gen)
      BY <1>3, <2>1 DEF RetryAnswered
    <3>2. QED BY <1>1, <3>1, GenerationKept
  <2>2. CASE client.retry.on = "ok"
    <3> DEFINE item == client.retry.item
               t == client.thread
    <3>1. item.gen = row.gen
      BY <1>3, <2>2 DEF RetryAnswered
    <3>2. row.gen \in Nat /\ row.gen >= 1 /\ t.gen \in Nat
      BY MomentsTyped, Numbers
    <3>3. Known(item)
      BY <3>1, <3>2 DEF Known
    <3>4. t.gen <= row.gen
      BY DEF ThreadOrdered, InOrder, Follows, Moments
    <3>5. Merge(t, item).gen = row.gen
      <4>1. CASE IsOlder(item, t)
        BY <3>1, <3>2, <3>4, <4>1 DEF IsOlder, Merge, KeepDocument
      <4>2. CASE ~IsOlder(item, t)
        <5>1. item \in Threads
          BY MarksTyped DEF Marks
        <5>2. KeepDocument(t, item).gen = item.gen
          BY <5>1 DEF KeepDocument, Threads
        <5>3. QED BY <3>1, <4>2, <5>2 DEF Merge
      <4>3. QED BY <4>1, <4>2
    <3>6. QED BY <1>1, <1>2, <1>3, <3>3, <3>5 DEF AtGeneration
  <2>3. QED BY <1>1, <2>1, <2>2
<1>4. client'.retry.on = "no"
  BY <1>2 DEF NoRequest
<1>5. QED BY <1>1, <1>2, <1>3, <1>4 DEF RetryAnswered, Exists

LEMMA LoseRetryKeeps ==
    ASSUME LibraryTyped, AnswersOrdered, ThreadOrdered, RetryAnswered, Outcome,
           LoseRetry
    PROVE  RetryAnswered'
<1>1. /\ client'.retry.on = "no" /\ client'.retryKey = client.retryKey
      /\ client'.removed = client.removed
      /\ UNCHANGED <<row, present, seen>>
  BY LoseRetryStep DEF LoseRetry, server, NoRequest
<1>2. AtGeneration(client, row.gen) => AtGeneration(client', row'.gen)
  BY <1>1, GenerationKept
<1>3. QED BY <1>1, <1>2 DEF RetryAnswered, Exists

LEMMA RetrySummaryKeeps ==
    ASSUME LibraryTyped, AnswersOrdered, ThreadOrdered, RetryAnswered, Outcome,
           RetrySummary
    PROVE  RetryAnswered'
<1>1. /\ client'.retry.on = "sent"
      /\ client'.retryKey = IF client.retryKey = None THEN "unknown"
                            ELSE client.retryKey
      /\ client'.removed = client.removed
      /\ UNCHANGED <<row, present, seen>>
  BY RetrySummaryStep DEF RetrySummary, Quietly, server
<1>2. None # "unknown" /\ None # "known"
  BY DEF None
<1>3. AtGeneration(client, row.gen) => AtGeneration(client', row'.gen)
  BY <1>1, GenerationKept
<1>4. QED BY <1>1, <1>2, <1>3 DEF RetryAnswered, Exists

(* A retry that was given up, if it is served, is served late.             *)
LEMMA ServeStrayKeeps ==
    ASSUME LibraryTyped, AnswersOrdered, ThreadOrdered, RetryAnswered, Outcome,
           ServeStray
    PROVE  RetryAnswered'
<1>1. PICK s \in strays :
        /\ CASE s = "removal" ->
                  present' = present \ {Focus} /\ UNCHANGED <<row, saved>>
             [] s = "save" -> AddRow /\ UNCHANGED row
             [] s = "retry" -> /\ StartsGeneration(client.retryKey)
                               /\ StartGeneration
                               /\ UNCHANGED <<present, saved>>
             [] s = "variant" -> /\ Exists /\ row.res # 0
                                 /\ MakeVariant
                                 /\ UNCHANGED <<present, saved>>
             [] OTHER -> /\ Exists
                         /\ WriteRead(s)
                         /\ UNCHANGED <<present, saved>>
        /\ client' = IF s = "retry" /\ client.retryKey = "unknown"
                     THEN [client EXCEPT !.retryKey = "known"] ELSE client
        /\ seen' = [seen EXCEPT !.late = @ \/ s \in ReadStatus \cup {"retry"}]
  BY DEF ServeStray
<1>2. /\ saved \in Nat /\ client \in Clients(saved) /\ row \in Rows
      /\ strays \subseteq Strays /\ seen \in [mixed : BOOLEAN, late : BOOLEAN]
  BY DEF LibraryTyped
<1>3. CASE s \in ReadStatus \cup {"retry"}
  <2>1. seen'.late
    BY <1>1, <1>2, <1>3
  <2>2. client'.retry = client.retry
        /\ client'.retryKey \in {client.retryKey, "known"}
    BY <1>1, <1>2 DEF Clients
  <2>3. "known" # None
    BY DEF None
  <2>4. QED BY <2>1, <2>2, <2>3 DEF RetryAnswered
<1>4. CASE s \notin ReadStatus \cup {"retry"}
  <2>1. s \in {"removal", "save", "variant"}
    BY <1>2, <1>4 DEF Strays
  <2>2. client' = client
    BY <1>1, <2>1
  <2>3. row'.gen = row.gen
    <3>1. s \in {"removal", "save"} => row' = row
      BY <1>1
    <3>2. s = "variant" => row'.gen = row.gen
      BY <1>1, <1>2 DEF MakeVariant, Rows
    <3>3. QED BY <2>1, <3>1, <3>2
  <2>4. QED BY <2>2, <2>3, RetryKeptStep DEF RetryKept
<1>5. QED BY <1>3, <1>4

LEMMA RetryStep ==
    ASSUME LibraryTyped, AnswersOrdered, ThreadOrdered, RetryAnswered, Outcome
    PROVE  RetryAnswered'
  BY RetryKeptStep, ServeRetryKeeps, HearRetryKeeps, LoseRetryKeeps,
     RetrySummaryKeeps, ServeStrayKeeps, BegunKeeps DEF Outcome

-----------------------------------------------------------------------------
(* The inductive invariant.                                                *)
LibraryInvariant ==
    LibraryTyped /\ AnswersOrdered /\ ThreadOrdered /\ RetryAnswered

LEMMA InitOrdered ==
    ASSUME Init
    PROVE  LibraryInvariant
<1> DEFINE home == "home"
           all == "all"
           u == owner
<1>1. LibraryTyped
  BY InitTyped
<1>2. /\ row.at = 1 /\ row.res \in {0, 1} /\ row.gen = 1
      /\ client = Begin(u, home, all)
  BY DEF Init
<1>3. u \in Users \cup {None} /\ home \in {"home", "archive"} /\ all \in Filters
  BY LibraryAssumption DEF Filters
<1> HIDE DEF u, home, all
<1>4. Empty(client) /\ Marks(client) = {NoThread}
  BY <1>1, <1>2, <1>3, BeginFits DEF LibraryTyped
<1>5. AnswersOrdered
  BY <1>2, <1>4
     DEF AnswersOrdered, Moments, Before, Answer, EndedAlike, IsProcessing, NoThread
<1>6. ThreadOrdered
  BY <1>2, <1>4
     DEF ThreadOrdered, Empty, InOrder, Moments, Labelled, ShowsRow, Follows, NoThread
<1>7. RetryAnswered
  BY <1>4 DEF RetryAnswered, Empty, AtGeneration, NoRequest, NoThread
<1>8. QED BY <1>1, <1>5, <1>6, <1>7 DEF LibraryInvariant

LEMMA InvariantKept ==
    ASSUME LibraryInvariant, [Next]_vars
    PROVE  LibraryInvariant'
<1>1. CASE Next
  <2>1. Outcome
    BY <1>1, EveryStep DEF LibraryInvariant
  <2>2. QED BY <2>1, AnswersStep, ThreadStep, RetryStep DEF LibraryInvariant, Outcome
<1>2. CASE UNCHANGED vars
  BY <1>2, TypedStutters
     DEF LibraryInvariant, vars, AnswersOrdered, ThreadOrdered, RetryAnswered,
         Moments, InOrder, Exists, AtGeneration
<1>3. QED BY <1>1, <1>2

(* The invariant is inductive.                                             *)
THEOREM LibraryOrdered == Spec => []LibraryInvariant
  BY InitOrdered, InvariantKept, PTL DEF Spec

(* No late answer takes the app back: within a session neither the         *)
(* generation nor the document shown, nor the row it was read from, is     *)
(* ever replaced by an older one.                                          *)
THEOREM CacheForward == Spec => CacheMovesForward
<1> DEFINE Forward ==
       Known(client.thread) /\ client'.account = client.account
         => /\ client'.thread.gen >= client.thread.gen
            /\ client'.thread.doc >= client.thread.doc
            /\ client'.thread.gen = client.thread.gen
                 => client'.thread.at >= client.thread.at
<1>1. LibraryInvariant /\ [Next]_vars => [Forward]_vars
  <2> SUFFICES ASSUME LibraryInvariant, [Next]_vars PROVE [Forward]_vars
    OBVIOUS
  <2>1. CASE Next
    BY <2>1, EveryStep, ForwardStep DEF LibraryInvariant
  <2>2. CASE UNCHANGED vars
    BY <2>2
  <2>3. QED BY <2>1, <2>2
<1>2. QED BY <1>1, LibraryOrdered, PTL DEF Spec, CacheMovesForward

(* A document is the one its label says, and when all is answered a thread *)
(* that has been loaded shows the row's last generation, in its state and  *)
(* with its document.                                                      *)
THEOREM DocumentsSettle == Spec => []DocumentSettles
<1>1. LibraryInvariant => DocumentSettles
  <2> SUFFICES ASSUME LibraryInvariant PROVE DocumentSettles
    OBVIOUS
  <2> DEFINE t == client.thread
  <2>1. Labelled(t) /\ ShowsRow(t, row)
    BY DEF LibraryInvariant, ThreadOrdered, InOrder
  <2>2. ASSUME AtRest, ~seen.late, t.loaded, client.retryKey = None
        PROVE  t.gen = row.gen /\ t.phase = row.phase /\ t.doc = row.res
    <3>1. Exists /\ Known(t) /\ ~client.removed /\ ~IsProcessing(t) /\ ~t.stale
      <4>1. client.account = owner /\ owner # None
        BY <2>2, LibraryAssumption, UsersAssumption DEF AtRest
      <4>2. QED BY <2>2, <4>1 DEF AtRest, Polled
    <3>2. "known" # None
      BY DEF None
    <3>3. AtGeneration(client, row.gen)
      BY <2>2, <3>1, <3>2 DEF LibraryInvariant, RetryAnswered
    <3>4. t.gen = row.gen
      BY <3>1, <3>3 DEF AtGeneration, Known
    <3>5. QED BY <2>1, <2>2, <3>1, <3>4 DEF ShowsRow
  <2>3. QED BY <2>1, <2>2 DEF DocumentSettles, Labelled
<1>2. QED BY <1>1, LibraryOrdered, PTL

-----------------------------------------------------------------------------
(* Read states.  What receive is given: an answer in flight and whether no *)
(* choice was made since it was asked for.                                 *)
Told(c) ==
    {<<NoThread, TRUE>>, <<c.retry.item, TRUE>>, <<c.save.item, TRUE>>}
    \cup {<<h.item, h.same>> : h \in c.homes}
    \cup {<<p.item, p.same>> : p \in c.pages}
    \cup {<<d.item, d.same>> : d \in c.details}

(* The last write is the user's last choice, and only the first is sent.   *)
QueueOrdered(c) ==
    /\ c.writes # <<>> => /\ c.intent.pending
                          /\ c.writes[Len(c.writes)].status = c.intent.status
    /\ \A i \in 1 .. Len(c.writes) :
          /\ c.writes[i].last <=> i = Len(c.writes)
          /\ c.writes[i].on # "missing"
          /\ i > 1 => c.writes[i].on = "queued"

(* An answer is of the row as it is read now, or will be dropped.          *)
Agrees(x, t, r) == x.read = r.read \/ (Known(t) /\ IsOlder(x, t))

(* The thread shows the last choice, which the row has once it is settled; *)
(* if there was none, it shows the row.                                    *)
ReadsAgree(c, r) ==
    /\ c.intent # NoIntent =>
         /\ Known(c.thread) => c.thread.read = c.intent.status
         /\ ~c.intent.pending => c.intent.status = r.read
    /\ c.intent = NoIntent =>
         /\ Known(c.thread) => c.thread.read = r.read
         /\ \A u \in Told(c) : Known(u[1]) => u[1].read = r.read
    /\ ~c.intent.pending =>
         \A u \in Told(c) : u[2] /\ Known(u[1]) => Agrees(u[1], c.thread, r)

(* A write that was served is in the row, and in what is read after it.    *)
WriteServed(c, r) ==
    c.writes # <<>> /\ c.writes[1].on = "ok"
      => LET w == c.writes[1]
         IN  /\ Known(w.item) /\ w.item.read = w.status /\ w.status = r.read
             /\ \A u \in Told(c) :
                   Known(u[1]) /\ u[1].at >= w.item.at => u[1].read = r.read

ReadsSound(c, r) == QueueOrdered(c) /\ ReadsAgree(c, r) /\ WriteServed(c, r)

(* A step of the hook that chooses nothing and hears nothing.              *)
Keeps(c, d) ==
    /\ d.intent = c.intent /\ d.writes = c.writes
    /\ d.thread.read = c.thread.read
    /\ d.thread.gen = c.thread.gen /\ d.thread.at = c.thread.at
    /\ Told(d) \subseteq Told(c)

LEMMA KeepsTransitive ==
    ASSUME NEW b, NEW c, NEW d, Keeps(b, c), Keeps(c, d)
    PROVE  Keeps(b, d)
  BY DEF Keeps

LEMMA KeepsReflexive ==
    ASSUME NEW c
    PROVE  Keeps(c, c)
  BY DEF Keeps

LEMMA KeptSound ==
    ASSUME NEW c, NEW d, NEW r, Keeps(c, d), ReadsSound(c, r)
    PROVE  ReadsSound(d, r)
<1>1. QueueOrdered(d)
  BY DEF Keeps, ReadsSound, QueueOrdered
<1>2. ReadsAgree(d, r)
  <2>1. \A x : Agrees(x, c.thread, r) => Agrees(x, d.thread, r)
    BY DEF Keeps, Agrees, Known, IsOlder
  <2>2. QED BY <2>1 DEF Keeps, ReadsSound, ReadsAgree, Known
<1>3. WriteServed(d, r)
  BY DEF Keeps, ReadsSound, WriteServed
<1>4. QED BY <1>1, <1>2, <1>3 DEF ReadsSound

LEMMA RowSound ==
    ASSUME NEW c, NEW r, NEW s, s.read = r.read, ReadsSound(c, r)
    PROVE  ReadsSound(c, s)
  BY DEF ReadsSound, ReadsAgree, WriteServed, Agrees

(* What is done to the detail requests adds nothing to what can be told.   *)
LEMMA ToldLess ==
    ASSUME NEW c, NEW e,
           e.homes = c.homes, e.pages = c.pages, e.retry = c.retry, e.save = c.save,
           \A d \in e.details : \/ d.item = NoThread /\ d.same = TRUE
                                \/ \E x \in c.details : d.item = x.item /\ d.same = x.same
    PROVE  Told(e) \subseteq Told(c)
<1>1. \A x \in c.details : <<x.item, x.same>> \in Told(c)
  BY DEF Told
<1>2. <<NoThread, TRUE>> \in Told(c)
  BY DEF Told
<1>3. ASSUME NEW d \in e.details PROVE <<d.item, d.same>> \in Told(c)
  BY <1>1, <1>2, <1>3
<1>4. {<<d.item, d.same>> : d \in e.details} \subseteq Told(c)
  BY <1>3
<1> DEFINE others(z) == {<<NoThread, TRUE>>, <<z.retry.item, TRUE>>, <<z.save.item, TRUE>>}
                        \cup {<<h.item, h.same>> : h \in z.homes}
                        \cup {<<p.item, p.same>> : p \in z.pages}
<1>5. others(e) = others(c)
  OBVIOUS
<1>6. \A z : Told(z) = others(z) \cup {<<d.item, d.same>> : d \in z.details}
  BY DEF Told
<1> HIDE DEF others
<1>7. QED BY <1>4, <1>5, <1>6

-----------------------------------------------------------------------------
(* The functions of the hook that keep them.                               *)

LEMMA FetchDetailKeeps ==
    ASSUME NEW n \in Nat, NEW c \in Clients(n), NEW force, NEW waits
    PROVE  Keeps(c, FetchDetail(c, force, waits))
<1> DEFINE mapped == {d \in c.details : d.mapped}
           joined == {[d EXCEPT !.waits = @ \cup waits] : d \in mapped}
           unmapped == {[d EXCEPT !.mapped = FALSE] : d \in c.details}
           new == [mapped |-> TRUE, waits |-> waits, same |-> TRUE,
                   on |-> "sent", item |-> NoThread]
           Fit(x) == \A d \in x : \/ d.item = NoThread /\ d.same = TRUE
                                  \/ \E e \in c.details : d.item = e.item /\ d.same = e.same
<1>1. ASSUME NEW d \in c.details
      PROVE  /\ [d EXCEPT !.waits = @ \cup waits].item = d.item
             /\ [d EXCEPT !.waits = @ \cup waits].same = d.same
             /\ [d EXCEPT !.mapped = FALSE].item = d.item
             /\ [d EXCEPT !.mapped = FALSE].same = d.same
  <2>1. d \in DetailRequests
    BY ClientParts
  <2>2. QED BY <2>1 DEF DetailRequests
<1>2. Fit((c.details \ mapped) \cup joined) /\ Fit(unmapped \cup {new})
  <2>1. \A x \in joined : \E d \in c.details : x.item = d.item /\ x.same = d.same
    BY <1>1
  <2>2. \A x \in unmapped : \E d \in c.details : x.item = d.item /\ x.same = d.same
    BY <1>1
  <2>3. new.item = NoThread /\ new.same = TRUE
    OBVIOUS
  <2> HIDE DEF joined, unmapped, new
  <2>4. QED BY <2>1, <2>2, <2>3
<1>3. ASSUME NEW x, Fit(x) PROVE Keeps(c, [c EXCEPT !.details = x])
  <2> DEFINE e == [c EXCEPT !.details = x]
  <2>1. /\ e.details = x /\ e.homes = c.homes /\ e.pages = c.pages
        /\ e.retry = c.retry /\ e.save = c.save
        /\ e.intent = c.intent /\ e.writes = c.writes /\ e.thread = c.thread
    BY DEF Clients
  <2> HIDE DEF e
  <2>2. \A d \in e.details : \/ d.item = NoThread /\ d.same = TRUE
                             \/ \E y \in c.details : d.item = y.item /\ d.same = y.same
    BY <1>3, <2>1
  <2> HIDE DEF Fit, mapped, joined, unmapped, new
  <2>3. Told(e) \subseteq Told(c)
    BY <2>1, <2>2, ToldLess
  <2>4. QED BY <2>1, <2>3 DEF Keeps, e
<1>4. FetchDetail(c, force, waits) \in {c,
         [c EXCEPT !.details = (c.details \ mapped) \cup joined],
         [c EXCEPT !.details = unmapped \cup {new}]}
  BY DEF FetchDetail
<1> HIDE DEF Fit
<1>5. QED BY <1>2, <1>3, <1>4, KeepsReflexive

LEMMA RefreshHomeKeeps ==
    ASSUME NEW n \in Nat, NEW c \in Clients(n)
    PROVE  Keeps(c, RefreshHome(c))
<1> DEFINE new == [fresh |-> TRUE, same |-> TRUE, on |-> "sent",
                   rows |-> <<>>, item |-> NoThread]
           hs == {[h EXCEPT !.fresh = FALSE] : h \in c.homes} \cup {new}
           d == [c EXCEPT !.homes = hs]
<1>1. ASSUME NEW h \in c.homes
      PROVE  /\ [h EXCEPT !.fresh = FALSE].item = h.item
             /\ [h EXCEPT !.fresh = FALSE].same = h.same
  <2>1. h \in HomeRequests(n)
    BY ClientParts
  <2>2. QED BY <2>1 DEF HomeRequests
<1>2. new.item = NoThread /\ new.same = TRUE
  OBVIOUS
<1>3. RefreshHome(c) \in {c, d}
  BY DEF RefreshHome
<1> HIDE DEF new
<1>4. \A h \in hs : \/ h.item = NoThread /\ h.same = TRUE
                    \/ \E g \in c.homes : h.item = g.item /\ h.same = g.same
  BY <1>1, <1>2
<1> HIDE DEF hs
<1>5. /\ d.homes = hs /\ d.details = c.details /\ d.pages = c.pages
      /\ d.retry = c.retry /\ d.save = c.save
      /\ d.intent = c.intent /\ d.writes = c.writes /\ d.thread = c.thread
  BY DEF Clients
<1> HIDE DEF d
<1>6. Keeps(c, d)
  BY <1>4, <1>5 DEF Keeps, Told
<1>7. QED BY <1>3, <1>6, KeepsReflexive

(* The pages in flight are out of date, and another one is asked for.      *)
LEMMA PagesKeep ==
    ASSUME NEW n \in Nat, NEW c \in Clients(n), NEW x,
           \A p \in x : \/ p.item = NoThread /\ p.same = TRUE
                        \/ \E g \in c.pages : p.item = g.item /\ p.same = g.same,
           NEW d, d.pages = x, d.details = c.details, d.homes = c.homes,
           d.retry = c.retry, d.save = c.save,
           d.intent = c.intent, d.writes = c.writes, d.thread = c.thread
    PROVE  Keeps(c, d)
  BY DEF Keeps, Told

LEMMA OldPages ==
    ASSUME NEW n \in Nat, NEW c \in Clients(n)
    PROVE  \A p \in {[q EXCEPT !.fresh = FALSE] : q \in c.pages} :
              \E g \in c.pages : p.item = g.item /\ p.same = g.same
<1>1. ASSUME NEW q \in c.pages
      PROVE  /\ [q EXCEPT !.fresh = FALSE].item = q.item
             /\ [q EXCEPT !.fresh = FALSE].same = q.same
  <2>1. q \in PageRequests(n)
    BY ClientParts
  <2>2. QED BY <2>1 DEF PageRequests
<1>2. QED BY <1>1

LEMMA RefreshArchiveKeeps ==
    ASSUME NEW n \in Nat, NEW c \in Clients(n)
    PROVE  Keeps(c, RefreshArchive(c))
<1> DEFINE new == PageRequest(c, FALSE)
           ps == {[p EXCEPT !.fresh = FALSE] : p \in c.pages} \cup {new}
           d == [c EXCEPT !.archiveError = FALSE, !.pages = ps]
<1>1. new.item = NoThread /\ new.same = TRUE
  BY DEF PageRequest
<1> HIDE DEF new
<1>2. \A p \in ps : \/ p.item = NoThread /\ p.same = TRUE
                    \/ \E g \in c.pages : p.item = g.item /\ p.same = g.same
  BY <1>1, OldPages
<1>3. RefreshArchive(c) \in {c, d}
  BY DEF RefreshArchive, new
<1> HIDE DEF ps
<1>4. /\ d.pages = ps /\ d.details = c.details /\ d.homes = c.homes
      /\ d.retry = c.retry /\ d.save = c.save
      /\ d.intent = c.intent /\ d.writes = c.writes /\ d.thread = c.thread
  BY DEF Clients
<1> HIDE DEF d
<1>5. Keeps(c, d)
  BY <1>2, <1>4, PagesKeep
<1>6. QED BY <1>3, <1>5, KeepsReflexive

LEMMA LoadMoreKeeps ==
    ASSUME NEW n \in Nat, NEW c \in Clients(n)
    PROVE  Keeps(c, LoadMore(c))
<1> DEFINE new == PageRequest(c, TRUE)
           ps == c.pages \cup {new}
           d == [c EXCEPT !.moreBusy = TRUE, !.pages = ps]
<1>1. new.item = NoThread /\ new.same = TRUE
  BY DEF PageRequest
<1> HIDE DEF new
<1>2. \A p \in ps : \/ p.item = NoThread /\ p.same = TRUE
                    \/ \E g \in c.pages : p.item = g.item /\ p.same = g.same
  BY <1>1
<1>3. LoadMore(c) = d
  BY DEF LoadMore, new
<1> HIDE DEF ps
<1>4. /\ d.pages = ps /\ d.details = c.details /\ d.homes = c.homes
      /\ d.retry = c.retry /\ d.save = c.save
      /\ d.intent = c.intent /\ d.writes = c.writes /\ d.thread = c.thread
  BY DEF Clients
<1> HIDE DEF d
<1>5. QED BY <1>2, <1>3, <1>4, PagesKeep

LEMMA ResetArchiveKeeps ==
    ASSUME NEW n \in Nat, NEW c \in Clients(n)
    PROVE  Keeps(c, ResetArchive(c))
<1> DEFINE ps == {[p EXCEPT !.fresh = FALSE] : p \in c.pages}
           d == ResetArchive(c)
<1>1. \A p \in ps : \E g \in c.pages : p.item = g.item /\ p.same = g.same
  BY OldPages
<1>2. /\ d.pages = ps /\ d.details = c.details /\ d.homes = c.homes
      /\ d.retry = c.retry /\ d.save = c.save
      /\ d.intent = c.intent /\ d.writes = c.writes /\ d.thread = c.thread
  BY DEF ResetArchive, Clients
<1> HIDE DEF ps, d
<1>3. Keeps(c, d)
  BY <1>1, <1>2, PagesKeep
<1>4. QED BY <1>3 DEF d

LEMMA AbortKeeps ==
    ASSUME NEW n \in Nat, NEW c \in Clients(n)
    PROVE  Keeps(c, Abort(c))
<1> DEFINE d == Abort(c)
<1>1. /\ d.pages = {} /\ d.details = {} /\ d.homes = {}
      /\ d.retry = c.retry /\ d.save = c.save
      /\ d.intent = c.intent /\ d.writes = c.writes /\ d.thread = c.thread
  BY DEF Abort, Clients
<1> HIDE DEF d
<1>2. Keeps(c, d)
  BY <1>1 DEF Keeps, Told
<1>3. QED BY <1>2 DEF d

(* What a step changes beside the reads, the lists and the requests.       *)
LEMMA AsideKeeps ==
    ASSUME NEW c, NEW d,
           d.intent = c.intent, d.writes = c.writes, d.thread = c.thread,
           d.homes = c.homes, d.pages = c.pages, d.details = c.details,
           d.retry.item \in {c.retry.item, NoThread},
           d.save.item \in {c.save.item, NoThread}
    PROVE  Keeps(c, d)
  BY DEF Keeps, Told

LEMMA ResumeKeeps ==
    ASSUME NEW n \in Nat, NEW c \in Clients(n)
    PROVE  Keeps(c, Resume(c))
<1> DEFINE h == RefreshHome(c)
           lists == IF c.screen = "archive" THEN RefreshArchive(h) ELSE h
           shown == [lists EXCEPT !.active = TRUE]
<1>1. h \in Clients(n) /\ Keeps(c, h)
  BY RefreshHomeFits, RefreshHomeKeeps DEF ListStep
<1>2. lists \in Clients(n) /\ Keeps(c, lists)
  <2>1. RefreshArchive(h) \in Clients(n) /\ Keeps(h, RefreshArchive(h))
    BY <1>1, RefreshArchiveFits, RefreshArchiveKeeps DEF ListStep
  <2>2. QED BY <1>1, <2>1, KeepsTransitive
<1>3. Resume(c) = IF c.open THEN FetchDetail(shown, FALSE, {}) ELSE shown
  <2>1. lists.open = c.open
    BY DEF RefreshHome, RefreshArchive, Clients
  <2>2. QED BY <2>1 DEF Resume, Clients
<1> HIDE DEF lists
<1>4. shown \in Clients(n) /\ Keeps(lists, shown)
  <2>1. shown \in Clients(n)
    BY <1>2 DEF Clients
  <2>2. /\ shown.intent = lists.intent /\ shown.writes = lists.writes
        /\ shown.thread = lists.thread /\ shown.homes = lists.homes
        /\ shown.pages = lists.pages /\ shown.details = lists.details
        /\ shown.retry = lists.retry /\ shown.save = lists.save
    BY <1>2 DEF Clients
  <2> HIDE DEF shown
  <2>3. QED BY <2>1, <2>2, AsideKeeps
<1>5. Keeps(c, shown)
  BY <1>2, <1>4, KeepsTransitive
<1> HIDE DEF shown
<1>6. Keeps(c, FetchDetail(shown, FALSE, {}))
  BY <1>4, <1>5, FetchDetailKeeps, KeepsTransitive
<1>7. QED BY <1>3, <1>5, <1>6

LEMMA CloseKeeps ==
    ASSUME NEW n \in Nat, NEW c \in Clients(n)
    PROVE  Keeps(c, Close(c))
<1> DEFINE ds == {[d EXCEPT !.waits = @ \ {"open"}] : d \in c.details}
           b == Close(c)
<1>1. ASSUME NEW x \in ds PROVE \E d \in c.details : x.item = d.item /\ x.same = d.same
  <2>1. PICK d \in c.details : x = [d EXCEPT !.waits = @ \ {"open"}]
    OBVIOUS
  <2>2. d \in DetailRequests
    BY ClientParts
  <2>3. QED BY <2>1, <2>2 DEF DetailRequests
<1>2. /\ b.details = ds /\ b.pages = c.pages /\ b.homes = c.homes
      /\ b.retry = c.retry /\ b.save = c.save
      /\ b.intent = c.intent /\ b.writes = c.writes /\ b.thread = c.thread
  BY DEF Close, Clients
<1> HIDE DEF ds, b
<1>3. Told(b) \subseteq Told(c)
  BY <1>1, <1>2, ToldLess
<1>4. Keeps(c, b)
  BY <1>2, <1>3 DEF Keeps
<1>5. QED BY <1>4 DEF b

LEMMA RequestVariantKeeps ==
    ASSUME NEW n \in Nat, NEW c \in Clients(n)
    PROVE  Keeps(c, RequestVariant(c))
<1> DEFINE b == [c EXCEPT !.variant.on = "sent", !.densityError = FALSE]
<1>1. RequestVariant(c) \in {c, b}
  BY DEF RequestVariant
<1>2. /\ b.details = c.details /\ b.pages = c.pages /\ b.homes = c.homes
      /\ b.retry = c.retry /\ b.save = c.save
      /\ b.intent = c.intent /\ b.writes = c.writes /\ b.thread = c.thread
  BY DEF Clients
<1> HIDE DEF b
<1>3. Keeps(c, b)
  BY <1>2, AsideKeeps
<1>4. QED BY <1>1, <1>3, KeepsReflexive

LEMMA SelectDensityKeeps ==
    ASSUME NEW n \in Nat, NEW c \in Clients(n)
    PROVE  Keeps(c, SelectDensity(c))
<1> DEFINE b == [c EXCEPT !.density = TRUE, !.densityError = FALSE]
<1>1. b \in Clients(n)
  BY DEF Clients
<1>2. /\ b.details = c.details /\ b.pages = c.pages /\ b.homes = c.homes
      /\ b.retry = c.retry /\ b.save = c.save
      /\ b.intent = c.intent /\ b.writes = c.writes /\ b.thread = c.thread
  BY DEF Clients
<1>3. SelectDensity(c) \in {b, RequestVariant(b)}
  BY DEF SelectDensity
<1> HIDE DEF b
<1>4. Keeps(c, b)
  BY <1>2, AsideKeeps
<1>5. QED BY <1>1, <1>3, <1>4, RequestVariantKeeps, KeepsTransitive

-----------------------------------------------------------------------------
(* The functions that choose and write.                                    *)

(* Only the queue changes, and its first has not been served.              *)
LEMMA QueueSound ==
    ASSUME NEW c, NEW d, NEW r, ReadsSound(c, r), QueueOrdered(d),
           d.intent = c.intent, d.thread = c.thread, Told(d) = Told(c),
           d.writes = <<>> \/ d.writes[1].on # "ok"
    PROVE  ReadsSound(d, r)
<1>1. ReadsAgree(d, r)
  BY DEF ReadsSound, ReadsAgree
<1>2. WriteServed(d, r)
  BY DEF WriteServed
<1>3. QED BY <1>1, <1>2 DEF ReadsSound

LEMMA OnlyWrites ==
    ASSUME NEW n \in Nat, NEW c \in Clients(n), NEW x
    PROVE  LET d == [c EXCEPT !.writes = x]
           IN  /\ d.writes = x /\ d.intent = c.intent /\ d.thread = c.thread
               /\ d.removed = c.removed /\ Told(d) = Told(c)
<1> DEFINE d == [c EXCEPT !.writes = x]
<1>1. /\ d.writes = x /\ d.intent = c.intent /\ d.thread = c.thread
      /\ d.removed = c.removed
      /\ d.homes = c.homes /\ d.pages = c.pages /\ d.details = c.details
      /\ d.retry = c.retry /\ d.save = c.save
  BY DEF Clients
<1> HIDE DEF d
<1>2. Told(d) = Told(c)
  BY <1>1 DEF Told
<1>3. QED BY <1>1, <1>2 DEF d

(* The first write has settled.                                            *)
LEMMA TailSound ==
    ASSUME NEW n \in Nat, NEW c \in Clients(n), NEW r, ReadsSound(c, r),
           c.writes # <<>>
    PROVE  LET d == [c EXCEPT !.writes = Tail(c.writes)]
           IN  /\ d \in Clients(n) /\ ReadsSound(d, r)
               /\ d.thread = c.thread /\ d.intent = c.intent /\ Told(d) = Told(c)
               /\ d.writes = Tail(c.writes) /\ d.removed = c.removed
<1> DEFINE ws == Tail(c.writes)
           d == [c EXCEPT !.writes = ws]
<1>1. c.writes \in Seq(Writes) /\ Len(c.writes) \in Nat \ {0}
  BY ClientParts, EmptySeq
<1>2. /\ ws \in Seq(Writes) /\ Len(ws) = Len(c.writes) - 1
      /\ \A i \in 1 .. Len(ws) : ws[i] = c.writes[i + 1]
  BY <1>1
<1>3. d \in Clients(n)
  BY <1>2 DEF Clients
<1>4. /\ d.writes = ws /\ d.intent = c.intent /\ d.thread = c.thread
      /\ d.removed = c.removed /\ Told(d) = Told(c)
  BY OnlyWrites
<1> HIDE DEF ws, d
<1>5. QueueOrdered(c)
  BY DEF ReadsSound
<1>6. \A i \in 1 .. Len(ws) :
         /\ ws[i].last <=> i = Len(ws)
         /\ ws[i].on = "queued"
  <2>1. TAKE i \in 1 .. Len(ws)
  <2>2. i + 1 \in 1 .. Len(c.writes) /\ i + 1 > 1 /\ i + 1 = Len(c.writes) <=> i = Len(ws)
    BY <1>1, <1>2
  <2>3. QED BY <1>2, <1>5, <2>2 DEF QueueOrdered
<1>7. ws # <<>> => ws[Len(ws)] = c.writes[Len(c.writes)] /\ Len(ws) \in 1 .. Len(ws)
  <2>1. SUFFICES ASSUME ws # <<>> PROVE Len(ws) \in 1 .. Len(ws)
                 /\ ws[Len(ws)] = c.writes[Len(c.writes)]
    OBVIOUS
  <2>2. Len(ws) \in Nat \ {0}
    BY <1>2, <2>1, EmptySeq
  <2> DEFINE l == Len(ws)
             m == Len(c.writes)
  <2>3. l = m - 1 /\ m \in Nat \ {0} /\ l \in Nat \ {0}
    BY <1>1, <1>2, <2>2
  <2> HIDE DEF l, m
  <2>4. l \in 1 .. l
    BY <2>3
  <2>5. l + 1 = m
    BY <2>3
  <2>6. ws[Len(ws)] = c.writes[Len(ws) + 1]
    BY <1>2, <2>4 DEF l
  <2>7. QED BY <2>4, <2>5, <2>6 DEF l, m
<1>8. QueueOrdered(d)
  BY <1>1, <1>4, <1>5, <1>6, <1>7 DEF QueueOrdered
<1>9. d.writes = <<>> \/ d.writes[1].on # "ok"
  <2>1. SUFFICES ASSUME ws # <<>> PROVE ws[1].on # "ok"
    BY <1>4
  <2>2. 1 \in 1 .. Len(ws)
    BY <1>2, <2>1, EmptySeq
  <2>3. QED BY <1>6, <2>2
<1>10. ReadsSound(d, r)
  BY <1>4, <1>8, <1>9, QueueSound
<1>11. QED BY <1>3, <1>4, <1>10 DEF d, ws

LEMMA StartWriteSound ==
    ASSUME NEW n \in Nat, NEW c \in Clients(n), NEW r, ReadsSound(c, r)
    PROVE  /\ ReadsSound(StartWrite(c), r)
           /\ StartWrite(c).intent = c.intent /\ Told(StartWrite(c)) = Told(c)
           /\ c.writes = <<>> => StartWrite(c) = c
<1>1. CASE c.writes = <<>>
  BY <1>1 DEF StartWrite
<1>2. CASE c.writes # <<>> /\ c.removed
  <2> DEFINE d == [c EXCEPT !.writes = <<>>]
  <2>1. StartWrite(c) = d
    BY <1>2 DEF StartWrite
  <2>2. /\ d.writes = <<>> /\ d.intent = c.intent /\ d.thread = c.thread
        /\ Told(d) = Told(c)
    BY OnlyWrites
  <2> HIDE DEF d
  <2>3. QueueOrdered(d)
    BY <2>2 DEF QueueOrdered
  <2>4. QED BY <1>2, <2>1, <2>2, <2>3, QueueSound
<1>3. CASE c.writes # <<>> /\ ~c.removed
  <2> DEFINE w == [c.writes[1] EXCEPT !.on = "sent"]
             x == [c.writes EXCEPT ![1] = w]
             d == [c EXCEPT !.writes = x]
  <2>1. c.writes \in Seq(Writes) /\ Len(c.writes) \in Nat \ {0}
        /\ c.writes[1] \in Writes /\ 1 \in 1 .. Len(c.writes)
    BY <1>3, ClientParts, EmptySeq
  <2>2. w \in Writes /\ w.status = c.writes[1].status /\ w.last = c.writes[1].last
        /\ w.on = "sent"
    BY <2>1 DEF Writes
  <2>3. StartWrite(c) \in {c, d}
    BY <1>3 DEF StartWrite, Clients
  <2> HIDE DEF w
  <2>4. /\ Len(x) = Len(c.writes) /\ x # <<>>
        /\ \A i \in 1 .. Len(c.writes) : x[i] = IF i = 1 THEN w ELSE c.writes[i]
    <3>1. x \in Seq(Writes) /\ Len(x) = Len(c.writes)
          /\ \A i \in 1 .. Len(c.writes) : x[i] = IF i = 1 THEN w ELSE c.writes[i]
      BY <1>3, <2>1, <2>2, SeqUpdate
    <3> HIDE DEF x
    <3>2. x # <<>>
      BY <2>1, <3>1
    <3>3. QED BY <3>1, <3>2
  <2>5. /\ d.writes = x /\ d.intent = c.intent /\ d.thread = c.thread
        /\ Told(d) = Told(c)
    BY OnlyWrites
  <2> HIDE DEF x, d
  <2>6. QueueOrdered(c)
    BY DEF ReadsSound
  <2>7. Len(c.writes) \in 1 .. Len(c.writes)
    BY <2>1
  <2>8. QueueOrdered(d)
    BY <1>3, <2>1, <2>2, <2>4, <2>5, <2>6, <2>7 DEF QueueOrdered
  <2>9. d.writes[1].on # "ok"
    BY <2>1, <2>2, <2>4, <2>5
  <2>10. ReadsSound(d, r)
    BY <2>5, <2>8, <2>9, QueueSound
  <2>11. QED BY <1>3, <2>3, <2>5, <2>10
<1>4. QED BY <1>1, <1>2, <1>3

LEMMA BumpReadTold ==
    ASSUME NEW n \in Nat, NEW c \in Clients(n)
    PROVE  LET b == BumpRead(c)
           IN  /\ b.intent = c.intent
               /\ \A u \in Told(b) : \E v \in Told(c) :
                     u[1] = v[1] /\ (u[2] => u[2] = v[2])
<1> DEFINE hs == {[h EXCEPT !.same = FALSE] : h \in c.homes}
           ps == {[p EXCEPT !.same = FALSE] : p \in c.pages}
           ds == {[d EXCEPT !.same = FALSE] : d \in c.details}
           b == BumpRead(c)
<1>1. \A h \in hs : \E g \in c.homes : h.item = g.item /\ ~h.same
  <2>1. ASSUME NEW g \in c.homes
        PROVE  [g EXCEPT !.same = FALSE].item = g.item /\ ~[g EXCEPT !.same = FALSE].same
    <3>1. g \in HomeRequests(n)
      BY ClientParts
    <3>2. QED BY <3>1 DEF HomeRequests
  <2>2. QED BY <2>1
<1>2. \A h \in ps : \E g \in c.pages : h.item = g.item /\ ~h.same
  <2>1. ASSUME NEW g \in c.pages
        PROVE  [g EXCEPT !.same = FALSE].item = g.item /\ ~[g EXCEPT !.same = FALSE].same
    <3>1. g \in PageRequests(n)
      BY ClientParts
    <3>2. QED BY <3>1 DEF PageRequests
  <2>2. QED BY <2>1
<1>3. \A h \in ds : \E g \in c.details : h.item = g.item /\ ~h.same
  <2>1. ASSUME NEW g \in c.details
        PROVE  [g EXCEPT !.same = FALSE].item = g.item /\ ~[g EXCEPT !.same = FALSE].same
    <3>1. g \in DetailRequests
      BY ClientParts
    <3>2. QED BY <3>1 DEF DetailRequests
  <2>2. QED BY <2>1
<1>4. /\ b.homes = hs /\ b.pages = ps /\ b.details = ds
      /\ b.intent = c.intent /\ b.retry = c.retry /\ b.save = c.save
  BY DEF BumpRead, Clients
<1> HIDE DEF hs, ps, ds, b
<1>5. ASSUME NEW u \in Told(b)
      PROVE  \E v \in Told(c) : u[1] = v[1] /\ (u[2] => u[2] = v[2])
  <2>1. CASE u \in {<<NoThread, TRUE>>, <<c.retry.item, TRUE>>, <<c.save.item, TRUE>>}
    BY <2>1 DEF Told
  <2>2. CASE u \in {<<h.item, h.same>> : h \in hs}
    <3>1. PICK h \in hs : u = <<h.item, h.same>>
      BY <2>2
    <3>2. PICK g \in c.homes : h.item = g.item /\ ~h.same
      BY <1>1
    <3>3. <<g.item, g.same>> \in Told(c)
      BY DEF Told
    <3>4. QED BY <3>1, <3>2, <3>3
  <2>3. CASE u \in {<<h.item, h.same>> : h \in ps}
    <3>1. PICK h \in ps : u = <<h.item, h.same>>
      BY <2>3
    <3>2. PICK g \in c.pages : h.item = g.item /\ ~h.same
      BY <1>2
    <3>3. <<g.item, g.same>> \in Told(c)
      BY DEF Told
    <3>4. QED BY <3>1, <3>2, <3>3
  <2>4. CASE u \in {<<h.item, h.same>> : h \in ds}
    <3>1. PICK h \in ds : u = <<h.item, h.same>>
      BY <2>4
    <3>2. PICK g \in c.details : h.item = g.item /\ ~h.same
      BY <1>3
    <3>3. <<g.item, g.same>> \in Told(c)
      BY DEF Told
    <3>4. QED BY <3>1, <3>2, <3>3
  <2>5. QED BY <1>4, <2>1, <2>2, <2>3, <2>4 DEF Told
<1>6. QED BY <1>4, <1>5 DEF b

LEMMA BumpReadSound ==
    ASSUME NEW n \in Nat, NEW c \in Clients(n), NEW r, ReadsSound(c, r)
    PROVE  ReadsSound(BumpRead(c), r)
<1> DEFINE b == BumpRead(c)
<1>1. /\ b.intent = c.intent /\ b.thread = c.thread /\ b.writes = c.writes
      /\ \A u \in Told(b) : \E v \in Told(c) : u[1] = v[1] /\ (u[2] => u[2] = v[2])
  BY BumpReadTold, BumpReadFits
<1> HIDE DEF b
<1>2. QueueOrdered(b)
  BY <1>1 DEF ReadsSound, QueueOrdered
<1>3. ReadsAgree(b, r)
  BY <1>1 DEF ReadsSound, ReadsAgree
<1>4. WriteServed(b, r)
  BY <1>1 DEF ReadsSound, WriteServed
<1>5. QED BY <1>2, <1>3, <1>4 DEF ReadsSound, b

(* A choice is shown, and is the last in the queue.                        *)
LEMMA ChangeReadSound ==
    ASSUME NEW n \in Nat, NEW c \in Clients(n), NEW r, ReadsSound(c, r),
           NEW status \in ReadStatus
    PROVE  ReadsSound(ChangeRead(c, status), r)
<1> DEFINE b == BumpRead(c)
           last == [i \in DOMAIN b.writes |-> [b.writes[i] EXCEPT !.last = FALSE]]
           new == [status |-> status, last |-> TRUE, on |-> "queued", item |-> NoThread]
           t == [b.thread EXCEPT !.read = IF Known(c.thread) THEN status ELSE b.thread.read]
           i == [status |-> status, pending |-> TRUE]
           ws == Append(last, new)
           d == [b EXCEPT !.intent = i, !.thread = t, !.writes = ws]
<1>1. /\ b \in Clients(n) /\ b.thread = c.thread /\ b.writes = c.writes
      /\ b.thread \in Threads /\ b.writes \in Seq(Writes) /\ Len(b.writes) \in Nat
      /\ ReadsSound(b, r)
  <2>1. b \in Clients(n) /\ b.thread = c.thread /\ b.writes = c.writes /\ ReadsSound(b, r)
    BY BumpReadFits, BumpReadSound
  <2>2. b.thread \in Threads /\ b.writes \in Seq(Writes)
    BY <2>1, ClientParts
  <2>3. QED BY <2>1, <2>2
<1>2. ChangeRead(c, status) = IF c.account = None THEN c ELSE StartWrite(d)
  <2>1. d = [b EXCEPT
            !.intent = [status |-> status, pending |-> TRUE],
            !.thread.read = IF Known(c.thread) THEN status ELSE @,
            !.writes = Append([j \in DOMAIN @ |-> [@[j] EXCEPT !.last = FALSE]],
                              [status |-> status, last |-> TRUE,
                               on |-> "queued", item |-> NoThread])]
    OBVIOUS
  <2>2. QED BY <2>1 DEF ChangeRead
<1> HIDE DEF b
<1>3. /\ i \in Intents /\ i.pending /\ i.status = status /\ i # NoIntent
  <2>1. i \in Intents /\ i.pending /\ i.status = status
    BY DEF Intents
  <2>2. NoIntent.status = None /\ None \notin ReadStatus
    BY DEF NoIntent, None, ReadStatus
  <2>3. QED BY <2>1, <2>2
<1>4. t \in Threads /\ (Known(t) => t.read = status) /\ t.gen = c.thread.gen /\ t.at = c.thread.at
  BY <1>1 DEF Threads, Known
<1>5. new \in Writes /\ new.last = TRUE /\ new.on = "queued" /\ new.status = status
  BY ItemDefaults DEF Writes
<1>6. /\ last \in Seq(Writes) /\ Len(last) = Len(b.writes)
      /\ \A j \in 1 .. Len(b.writes) :
            /\ last[j].on = b.writes[j].on /\ last[j].status = b.writes[j].status
            /\ last[j].item = b.writes[j].item /\ ~last[j].last
  <2>1. DOMAIN b.writes = 1 .. Len(b.writes)
    BY <1>1
  <2>2. \A w \in Writes : LET u == [w EXCEPT !.last = FALSE]
                          IN  /\ u \in Writes /\ u.on = w.on /\ u.status = w.status
                              /\ u.item = w.item /\ ~u.last
    BY DEF Writes
  <2>3. \A j \in 1 .. Len(b.writes) : b.writes[j] \in Writes
    BY <1>1
  <2>4. last \in [1 .. Len(b.writes) -> Writes]
    BY <2>1, <2>2, <2>3
  <2>5. last \in Seq(Writes) /\ Len(last) = Len(b.writes)
    <3> DEFINE l == Len(b.writes)
    <3>1. l \in Nat /\ last \in [1 .. l -> Writes]
      BY <1>1, <2>4
    <3> HIDE DEF l, last
    <3>2. last \in Seq(Writes) /\ Len(last) = l
      BY <3>1, LenProperties, SeqDef
    <3>3. QED BY <3>2 DEF l
  <2>6. \A j \in 1 .. Len(b.writes) : last[j] = [b.writes[j] EXCEPT !.last = FALSE]
    BY <2>1
  <2> HIDE DEF last
  <2>7. QED BY <2>2, <2>3, <2>5, <2>6
<1> HIDE DEF last, new, t, i
<1>7. /\ ws \in Seq(Writes) /\ Len(ws) = Len(b.writes) + 1
      /\ \A j \in 1 .. Len(b.writes) + 1 :
            ws[j] = IF j <= Len(b.writes) THEN last[j] ELSE new
  BY <1>1, <1>5, <1>6
<1> HIDE DEF ws
<1>8. /\ d \in Clients(n) /\ d.thread = t /\ d.writes = ws /\ d.intent = i
      /\ d.homes = b.homes /\ d.pages = b.pages /\ d.details = b.details
      /\ d.retry = b.retry /\ d.save = b.save
  BY <1>1, <1>3, <1>4, <1>7 DEF Clients
<1> HIDE DEF d
<1>9. Told(d) = Told(b)
  BY <1>8 DEF Told
<1> DEFINE l == Len(b.writes)
<1>10. /\ l \in Nat
       /\ \A j \in 1 .. l : ws[j] = last[j]
       /\ ws[l + 1] = new
       /\ \A j \in 1 .. l + 1 : j \in 1 .. l \/ j = l + 1
       /\ Len(ws) = l + 1
       /\ l = 0 \/ 1 \in 1 .. l
  <2>1. l \in Nat
    BY <1>1
  <2>2. \A j \in 1 .. l : j \in 1 .. l + 1 /\ j <= l /\ j # l + 1
    BY <2>1
  <2>3. l + 1 \in 1 .. l + 1 /\ ~(l + 1 <= l)
    BY <2>1
  <2>4. \A j \in 1 .. l : ws[j] = last[j]
    BY <1>7, <2>2
  <2>5. ws[l + 1] = new
    BY <1>7, <2>3
  <2>6. \A j \in 1 .. l + 1 : j \in 1 .. l \/ j = l + 1
    BY <2>1
  <2>7. QED BY <1>7, <2>1, <2>4, <2>5, <2>6
<1>11. QueueOrdered(d)
  <2>1. QueueOrdered(b)
    BY <1>1 DEF ReadsSound
  <2>2. d.intent.pending /\ d.writes[Len(d.writes)].status = d.intent.status
    BY <1>3, <1>5, <1>8, <1>10
  <2>3. ASSUME NEW j \in 1 .. l + 1
        PROVE  /\ ws[j].last <=> j = l + 1
               /\ ws[j].on # "missing"
               /\ j > 1 => ws[j].on = "queued"
    <3>1. CASE j \in 1 .. l
      <4>1. j # l + 1
        BY <1>10, <3>1
      <4>2. ~ws[j].last /\ ws[j].on = b.writes[j].on
        BY <1>6, <1>10, <3>1
      <4>3. b.writes[j].on # "missing" /\ (j > 1 => b.writes[j].on = "queued")
        BY <2>1, <3>1 DEF QueueOrdered
      <4>4. QED BY <4>1, <4>2, <4>3
    <3>2. CASE j = l + 1
      BY <1>5, <1>10, <3>2
    <3>3. QED BY <1>10, <3>1, <3>2
  <2>4. QED BY <1>8, <1>10, <2>2, <2>3 DEF QueueOrdered
<1>12. ReadsAgree(d, r)
  BY <1>3, <1>4, <1>8 DEF ReadsAgree
<1>13. WriteServed(d, r)
  <2>1. SUFFICES ASSUME d.writes[1].on = "ok" PROVE WriteServed(d, r)
    BY DEF WriteServed
  <2>2. l # 0
    BY <1>5, <1>8, <1>10, <2>1
  <2>3. /\ d.writes[1].item = b.writes[1].item /\ d.writes[1].status = b.writes[1].status
        /\ b.writes[1].on = "ok"
    BY <1>6, <1>8, <1>10, <2>1, <2>2
  <2>4. b.writes # <<>>
    BY <2>2, EmptySeq
  <2>5. WriteServed(b, r)
    BY <1>1 DEF ReadsSound
  <2>6. QED BY <1>9, <2>3, <2>4, <2>5 DEF WriteServed
<1>14. ReadsSound(StartWrite(d), r)
  BY <1>8, <1>11, <1>12, <1>13, StartWriteSound DEF ReadsSound
<1>15. QED BY <1>2, <1>14

LEMMA EffectsSound ==
    ASSUME NEW n \in Nat, NEW c \in Clients(n), NEW r, ReadsSound(c, r)
    PROVE  ReadsSound(Effects(c), r)
<1> DEFINE s == [c EXCEPT !.entry = TRUE]
           a == AutoRead(c)
<1>1. s \in Clients(n)
  BY DEF Clients
<1>2. /\ s.intent = c.intent /\ s.writes = c.writes /\ s.thread = c.thread
      /\ s.homes = c.homes /\ s.pages = c.pages /\ s.details = c.details
      /\ s.retry = c.retry /\ s.save = c.save
  BY DEF Clients
<1>3. a \in {c, s, ChangeRead(s, "READ")}
  BY DEF AutoRead
<1> HIDE DEF s
<1>4. ReadsSound(s, r)
  BY <1>2, AsideKeeps, KeptSound
<1>5. /\ ChangeRead(s, "READ") \in Clients(n) /\ ReadsSound(ChangeRead(s, "READ"), r)
  BY <1>1, <1>4, ChangeReadFits, ChangeReadSound DEF ReadStatus
<1>6. a \in Clients(n) /\ ReadsSound(a, r)
  BY <1>1, <1>3, <1>4, <1>5
<1>7. Effects(c) \in {a, FetchDetail(a, FALSE, {})}
  BY DEF Effects, FetchStale
<1> HIDE DEF a
<1>8. Keeps(a, FetchDetail(a, FALSE, {}))
  BY <1>6, FetchDetailKeeps
<1>9. QED BY <1>6, <1>7, <1>8, KeptSound

(* Effects after a function that keeps the reads.                          *)
LEMMA KeepsThenEffects ==
    ASSUME NEW n \in Nat, NEW c, NEW d \in Clients(n), NEW r, Keeps(c, d),
           ReadsSound(c, r)
    PROVE  ReadsSound(Effects(d), r)
  BY KeptSound, EffectsSound

-----------------------------------------------------------------------------
(* Hearing.                                                                *)

(* mergeThread never makes it less true that an answer is older.           *)
LEMMA MergeLater ==
    ASSUME NEW t \in Threads, NEW i \in Threads, NEW x \in Threads, Known(t),
           IsOlder(x, t)
    PROVE  Known(Merge(t, i)) /\ IsOlder(x, Merge(t, i))
<1>1. /\ t.at \in Nat /\ t.gen \in Nat /\ i.at \in Nat /\ i.gen \in Nat
      /\ x.at \in Nat /\ x.gen \in Nat
  BY Numbers
<1>2. KeepDocument(t, i).gen = i.gen /\ KeepDocument(t, i).at = i.at
  BY DEF KeepDocument, Threads
<1>3. CASE IsOlder(i, t)
  BY <1>3 DEF Merge
<1>4. CASE ~IsOlder(i, t)
  <2>1. Merge(t, i).gen = i.gen /\ Merge(t, i).at = i.at
    BY <1>2, <1>4 DEF Merge
  <2>2. QED BY <1>1, <1>4, <2>1 DEF IsOlder, Known
<1>5. QED BY <1>3, <1>4

LEMMA MergeRead ==
    ASSUME NEW t \in Threads, NEW i \in Threads
    PROVE  /\ ~Known(t) => Merge(t, i).read = i.read
           /\ IsOlder(i, t) /\ Known(t) => Merge(t, i).read = t.read
           /\ Merge(t, i).read \in {t.read, i.read}
           /\ Known(t) \/ Known(i) => Known(Merge(t, i))
<1>1. /\ t.gen \in Nat /\ i.gen \in Nat
  BY Numbers
<1>2. KeepDocument(t, i).gen = i.gen /\ KeepDocument(t, i).read = i.read
  BY DEF KeepDocument, Threads
<1>3. QED BY <1>1, <1>2 DEF Merge, IsOlder, Known

(* What may be given to receive.                                           *)
Hearable(c, r, i, same) ==
    /\ c.intent = NoIntent /\ Known(i) => i.read = r.read
    /\ ~c.intent.pending /\ same /\ Known(i) => Agrees(i, c.thread, r)

(* The thread is replaced, and what is told and written is the same.       *)
LEMMA ThreadSound ==
    ASSUME NEW c, NEW d, NEW r, ReadsSound(c, r),
           d.intent = c.intent, d.writes = c.writes, Told(d) = Told(c),
           c.intent # NoIntent /\ Known(d.thread) => d.thread.read = c.intent.status,
           c.intent = NoIntent /\ Known(d.thread) => d.thread.read = r.read,
           \A u \in Told(c) : Known(c.thread) /\ IsOlder(u[1], c.thread)
                                 => Known(d.thread) /\ IsOlder(u[1], d.thread)
    PROVE  ReadsSound(d, r)
<1>1. QueueOrdered(d) /\ WriteServed(d, r)
  BY DEF ReadsSound, QueueOrdered, WriteServed
<1>2. ReadsAgree(d, r)
  BY DEF ReadsSound, ReadsAgree, Agrees
<1>3. QED BY <1>1, <1>2 DEF ReadsSound

LEMMA ToldTyped ==
    ASSUME NEW n \in Nat, NEW c \in Clients(n)
    PROVE  \A u \in Told(c) : u[1] \in Threads
<1>1. \A h \in c.homes : h.item \in Threads
  <2>1. c.homes \in SUBSET HomeRequests(n)
    BY ClientParts
  <2>2. QED BY <2>1 DEF HomeRequests
<1>2. \A p \in c.pages : p.item \in Threads
  <2>1. c.pages \in SUBSET PageRequests(n)
    BY ClientParts
  <2>2. QED BY <2>1 DEF PageRequests
<1>3. \A d \in c.details : d.item \in Threads
  <2>1. c.details \in SUBSET DetailRequests
    BY ClientParts
  <2>2. QED BY <2>1 DEF DetailRequests
<1>4. c.retry.item \in Threads /\ c.save.item \in Threads
  <2>1. c.retry \in Requests /\ c.save \in Saves(n)
    BY ClientParts
  <2>2. QED BY <2>1 DEF Requests, Saves
<1>5. NoThread \in Threads
  BY ItemDefaults
<1>6. TAKE u \in Told(c)
<1>7. CASE u \in {<<NoThread, TRUE>>, <<c.retry.item, TRUE>>, <<c.save.item, TRUE>>}
  <2>1. u = <<NoThread, TRUE>> => u[1] = NoThread
    OBVIOUS
  <2>2. u = <<c.retry.item, TRUE>> => u[1] = c.retry.item
    OBVIOUS
  <2>3. u = <<c.save.item, TRUE>> => u[1] = c.save.item
    OBVIOUS
  <2>4. QED BY <1>4, <1>5, <1>7, <2>1, <2>2, <2>3
<1>8. CASE u \in {<<h.item, h.same>> : h \in c.homes}
  BY <1>1, <1>8
<1>9. CASE u \in {<<p.item, p.same>> : p \in c.pages}
  BY <1>2, <1>9
<1>10. CASE u \in {<<d.item, d.same>> : d \in c.details}
  BY <1>3, <1>10
<1>11. QED BY <1>7, <1>8, <1>9, <1>10 DEF Told

LEMMA OnlyThread ==
    ASSUME NEW n \in Nat, NEW c \in Clients(n), NEW t
    PROVE  LET d == [c EXCEPT !.thread = t]
           IN  /\ d.thread = t /\ d.intent = c.intent /\ d.writes = c.writes
               /\ Told(d) = Told(c)
<1> DEFINE d == [c EXCEPT !.thread = t]
<1>1. /\ d.thread = t /\ d.intent = c.intent /\ d.writes = c.writes
      /\ d.homes = c.homes /\ d.pages = c.pages /\ d.details = c.details
      /\ d.retry = c.retry /\ d.save = c.save
  BY DEF Clients
<1> HIDE DEF d
<1>2. Told(d) = Told(c)
  BY <1>1 DEF Told
<1>3. QED BY <1>1, <1>2 DEF d

LEMMA ReceiveSound ==
    ASSUME NEW n \in Nat, NEW c \in Clients(n), NEW r, ReadsSound(c, r),
           NEW i \in Threads, NEW same, Hearable(c, r, i, same)
    PROVE  ReadsSound(Receive(c, i, same), r)
<1> DEFINE m == Merge(c.thread, i)
           u == [m EXCEPT !.read = c.intent.status]
<1>1. c.thread \in Threads /\ c.intent \in Intents /\ m \in Threads
  BY ClientParts, MergeTyped
<1>2. \A x \in Told(c) : Known(c.thread) /\ IsOlder(x[1], c.thread)
                            => Known(m) /\ IsOlder(x[1], m)
  BY <1>1, ToldTyped, MergeLater
<1>3. /\ ~Known(c.thread) => m.read = i.read
      /\ IsOlder(i, c.thread) /\ Known(c.thread) => m.read = c.thread.read
      /\ m.read \in {c.thread.read, i.read}
  BY <1>1, MergeRead
<1> HIDE DEF m
<1>4. u.gen = m.gen /\ u.at = m.at /\ u.read = c.intent.status
  BY <1>1 DEF Threads
<1> HIDE DEF u
<1>5. ReadsAgree(c, r)
  BY DEF ReadsSound
<1>6. CASE c.removed \/ ~Known(i)
  BY <1>6 DEF Receive
<1>7. CASE ~(c.removed \/ ~Known(i)) /\ c.intent # NoIntent /\ (c.intent.pending \/ ~same)
  <2>1. Receive(c, i, same) = [c EXCEPT !.thread = u]
    BY <1>7 DEF Receive, m, u
  <2> DEFINE d == [c EXCEPT !.thread = u]
  <2>2. d.thread = u /\ d.intent = c.intent /\ d.writes = c.writes /\ Told(d) = Told(c)
    BY OnlyThread
  <2> HIDE DEF d
  <2>3. \A x \in Told(c) : Known(c.thread) /\ IsOlder(x[1], c.thread)
                              => Known(u) /\ IsOlder(x[1], u)
    BY <1>2, <1>4 DEF Known, IsOlder
  <2>4. ReadsSound(d, r)
    BY <1>4, <1>7, <2>2, <2>3, ThreadSound
  <2>5. QED BY <2>1, <2>4 DEF d
<1>8. CASE ~(c.removed \/ ~Known(i)) /\ ~(c.intent # NoIntent /\ (c.intent.pending \/ ~same))
  <2>1. Receive(c, i, same) = [c EXCEPT !.thread = m]
    BY <1>8 DEF Receive, m
  <2> DEFINE d == [c EXCEPT !.thread = m]
  <2>2. d.thread = m /\ d.intent = c.intent /\ d.writes = c.writes /\ Told(d) = Told(c)
    BY OnlyThread
  <2> HIDE DEF d
  <2>3. ASSUME c.intent # NoIntent PROVE m.read = c.intent.status
    <3>1. ~c.intent.pending /\ same /\ Known(i)
      BY <1>8, <2>3
    <3>2. Agrees(i, c.thread, r) /\ c.intent.status = r.read
      BY <1>5, <2>3, <3>1 DEF Hearable, ReadsAgree
    <3>3. Known(c.thread) => c.thread.read = c.intent.status
      BY <1>5, <2>3 DEF ReadsAgree
    <3>4. QED BY <1>3, <3>2, <3>3 DEF Agrees
  <2>4. ASSUME c.intent = NoIntent PROVE m.read = r.read
    <3>1. i.read = r.read
      BY <1>8, <2>4 DEF Hearable
    <3>2. Known(c.thread) => c.thread.read = r.read
      BY <1>5, <2>4 DEF ReadsAgree
    <3>3. QED BY <1>3, <3>1, <3>2
  <2>5. ReadsSound(d, r)
    BY <1>2, <2>2, <2>3, <2>4, ThreadSound
  <2>6. QED BY <2>1, <2>5 DEF d
<1>9. QED BY <1>6, <1>7, <1>8

-----------------------------------------------------------------------------
(* The steps of the server and of the connection.                          *)
LEMMA ToldMarks ==
    ASSUME NEW c, NEW u \in Told(c)
    PROVE  u[1] \in Marks(c)
<1>1. CASE u \in {<<NoThread, TRUE>>, <<c.retry.item, TRUE>>, <<c.save.item, TRUE>>}
  <2>1. u = <<NoThread, TRUE>> => u[1] = NoThread
    OBVIOUS
  <2>2. u = <<c.retry.item, TRUE>> => u[1] = c.retry.item
    OBVIOUS
  <2>3. u = <<c.save.item, TRUE>> => u[1] = c.save.item
    OBVIOUS
  <2>4. QED BY <1>1, <2>1, <2>2, <2>3 DEF Marks
<1>2. CASE u \in {<<h.item, h.same>> : h \in c.homes}
  BY <1>2 DEF Marks
<1>3. CASE u \in {<<p.item, p.same>> : p \in c.pages}
  BY <1>3 DEF Marks
<1>4. CASE u \in {<<d.item, d.same>> : d \in c.details}
  BY <1>4 DEF Marks
<1>5. QED BY <1>1, <1>2, <1>3, <1>4 DEF Told

(* A session begins with nothing to agree about.                           *)
LEMMA EmptyReads ==
    ASSUME NEW d, NEW r, Empty(d), Marks(d) = {NoThread}, d.intent = NoIntent
    PROVE  ReadsSound(d, r)
<1>1. d.thread = NoThread /\ d.writes = <<>>
  BY DEF Empty
<1>2. ~Known(NoThread)
  BY DEF Known, NoThread
<1>3. \A u \in Told(d) : u[1] = NoThread
  BY ToldMarks
<1>4. QueueOrdered(d)
  BY <1>1 DEF QueueOrdered
<1>5. ReadsAgree(d, r)
  BY <1>1, <1>2, <1>3 DEF ReadsAgree
<1>6. WriteServed(d, r)
  BY <1>1 DEF WriteServed
<1>7. QED BY <1>4, <1>5, <1>6 DEF ReadsSound

(* One more request is answered, with the row as it is.                    *)
LEMMA MoreTold ==
    ASSUME NEW c, NEW d, NEW r, NEW s, ReadsSound(c, r), s.read = r.read,
           d.intent = c.intent, d.writes = c.writes, d.thread = c.thread,
           \A u \in Told(d) : \/ u \in Told(c)
                              \/ ~Known(u[1])
                              \/ u[1].read = r.read
    PROVE  ReadsSound(d, s)
<1>1. QueueOrdered(d)
  BY DEF ReadsSound, QueueOrdered
<1>2. ReadsAgree(d, r)
  BY DEF ReadsSound, ReadsAgree, Agrees
<1>3. WriteServed(d, r)
  BY DEF ReadsSound, WriteServed
<1>4. QED BY <1>1, <1>2, <1>3, RowSound DEF ReadsSound

(* What is told comes from the requests.                                   *)
LEMMA ToldGrows ==
    ASSUME NEW c, NEW d, NEW i,
           d.retry.item \in {c.retry.item, i, NoThread},
           d.save.item \in {c.save.item, i, NoThread},
           \A h \in d.homes : \/ h.item = i
                              \/ \E g \in c.homes : h.item = g.item /\ h.same = g.same,
           \A p \in d.pages : \/ p.item = i
                              \/ \E g \in c.pages : p.item = g.item /\ p.same = g.same,
           \A x \in d.details : \/ x.item = i
                                \/ \E g \in c.details : x.item = g.item /\ x.same = g.same
    PROVE  \A u \in Told(d) : u \in Told(c) \/ u[1] = i
<1>1. TAKE u \in Told(d)
<1>2. CASE u \in {<<NoThread, TRUE>>, <<d.retry.item, TRUE>>, <<d.save.item, TRUE>>}
  <2>1. /\ <<NoThread, TRUE>> \in Told(c) /\ <<c.retry.item, TRUE>> \in Told(c)
        /\ <<c.save.item, TRUE>> \in Told(c)
    BY DEF Told
  <2>2. CASE u = <<NoThread, TRUE>>
    BY <2>1, <2>2
  <2>3. CASE u = <<d.retry.item, TRUE>>
    <3>1. u[1] = d.retry.item
      BY <2>3
    <3>2. QED BY <2>1, <2>3, <3>1
  <2>4. CASE u = <<d.save.item, TRUE>>
    <3>1. u[1] = d.save.item
      BY <2>4
    <3>2. QED BY <2>1, <2>4, <3>1
  <2>5. QED BY <1>2, <2>2, <2>3, <2>4
<1>3. CASE u \in {<<h.item, h.same>> : h \in d.homes}
  <2>1. PICK h \in d.homes : u = <<h.item, h.same>>
    BY <1>3
  <2>2. u[1] = h.item
    BY <2>1
  <2>3. \A g \in c.homes : <<g.item, g.same>> \in Told(c)
    BY DEF Told
  <2>4. QED BY <2>1, <2>2, <2>3
<1>4. CASE u \in {<<p.item, p.same>> : p \in d.pages}
  <2>1. PICK p \in d.pages : u = <<p.item, p.same>>
    BY <1>4
  <2>2. u[1] = p.item
    BY <2>1
  <2>3. \A g \in c.pages : <<g.item, g.same>> \in Told(c)
    BY DEF Told
  <2>4. QED BY <2>1, <2>2, <2>3
<1>5. CASE u \in {<<x.item, x.same>> : x \in d.details}
  <2>1. PICK x \in d.details : u = <<x.item, x.same>>
    BY <1>5
  <2>2. u[1] = x.item
    BY <2>1
  <2>3. \A g \in c.details : <<g.item, g.same>> \in Told(c)
    BY DEF Told
  <2>4. QED BY <2>1, <2>2, <2>3
<1>6. QED BY <1>2, <1>3, <1>4, <1>5 DEF Told

(* One more request is answered, with an item of the row as it is read.    *)
LEMMA OneTold ==
    ASSUME NEW c, NEW d, NEW r, NEW s, ReadsSound(c, r), s.read = r.read,
           NEW i, ~Known(i) \/ i.read = r.read,
           d.intent = c.intent, d.writes = c.writes, d.thread = c.thread,
           d.retry.item \in {c.retry.item, i, NoThread},
           d.save.item \in {c.save.item, i, NoThread},
           \A h \in d.homes : \/ h.item = i
                              \/ \E g \in c.homes : h.item = g.item /\ h.same = g.same,
           \A p \in d.pages : \/ p.item = i
                              \/ \E g \in c.pages : p.item = g.item /\ p.same = g.same,
           \A x \in d.details : \/ x.item = i
                                \/ \E g \in c.details : x.item = g.item /\ x.same = g.same
    PROVE  ReadsSound(d, s)
<1>1. \A u \in Told(d) : u \in Told(c) \/ u[1] = i
  BY ToldGrows
<1>2. \A u \in Told(d) : u \in Told(c) \/ ~Known(u[1]) \/ u[1].read = r.read
  BY <1>1
<1>3. QED BY <1>2, MoreTold

LEMMA ItemsRead ==
    ASSUME row \in Rows
    PROVE  /\ ListItem(row).read = row.read /\ RowItem(row).read = row.read
           /\ DetailItem(row).read = row.read
<1>1. RowItem(row).read = row.read /\ ListItem(row).read = row.read
  BY DEF RowItem, ListItem
<1>2. QED BY <1>1 DEF DetailItem, RowItem, ListItem

(* What the steps below are about.                                         *)
Reading ==
    /\ LibraryTyped /\ AnswersOrdered /\ ReadsSound(client, row)
    /\ client.account = owner /\ ~client.removed

LEMMA ReadingTyped ==
    ASSUME Reading
    PROVE  /\ saved \in Nat /\ client \in Clients(saved) /\ row \in Rows
           /\ ReadsSound(client, row)
  BY DEF Reading, LibraryTyped

LEMMA ServeHomeReads ==
    ASSUME Reading, ServeHome
    PROVE  ReadsSound(client', row')
<1>1. PICK h \in client.homes :
         /\ client' = [client EXCEPT !.homes = (@ \ {h}) \cup
               {[h EXCEPT !.on = "ok",
                          !.rows = Page(client.account, "all", NoCursor),
                          !.item = ItemIn(Page(client.account, "all", NoCursor))]}]
         /\ row' = row
  BY DEF ServeHome, server
<1> DEFINE rows == Page(client.account, "all", NoCursor)
           item == ItemIn(rows)
           g == [h EXCEPT !.on = "ok", !.rows = rows, !.item = item]
           hs == (client.homes \ {h}) \cup {g}
<1>2. client' = [client EXCEPT !.homes = hs]
  BY <1>1
<1>3. client \in Clients(saved) /\ h \in HomeRequests(saved) /\ row \in Rows
  BY ReadingTyped, ClientParts
<1>4. ~Known(item) \/ item.read = row.read
  BY <1>3, ItemsRead DEF ItemIn, Known, NoThread
<1> HIDE DEF item, rows
<1>5. g.item = item
  BY <1>3 DEF HomeRequests
<1> HIDE DEF g
<1>6. \A x \in hs : x \in client.homes \/ x = g
  OBVIOUS
<1> HIDE DEF hs
<1>7. /\ client'.homes = hs /\ client'.intent = client.intent
      /\ client'.writes = client.writes /\ client'.thread = client.thread
      /\ client'.pages = client.pages /\ client'.details = client.details
      /\ client'.retry = client.retry /\ client'.save = client.save
  BY <1>2, <1>3 DEF Clients
<1>8. row' = row /\ \A x \in hs : \/ x.item = item
                                  \/ \E y \in client.homes : /\ x.item = y.item
                                                            /\ x.same = y.same
  BY <1>1, <1>5, <1>6
<1>9. QED BY <1>4, <1>7, <1>8, OneTold, ReadingTyped

LEMMA ServePageReads ==
    ASSUME Reading, ServePage
    PROVE  ReadsSound(client', row')
<1> DEFINE answer(p) ==
       IF p.cursor # NoCursor /\ p.cursor.query # p.query
       THEN [p EXCEPT !.on = "refused"]
       ELSE [p EXCEPT !.on = "ok", !.rows = Page(client.account, p.query, p.cursor),
                      !.item = ItemIn(Page(client.account, p.query, p.cursor)),
                      !.next = NextCursor(client.account, p.query, p.cursor)]
<1>1. PICK p \in client.pages :
         /\ client' = [client EXCEPT !.pages = (@ \ {p}) \cup {answer(p)}]
         /\ row' = row
  BY DEF ServePage, server
<1> DEFINE rows == Page(client.account, p.query, p.cursor)
           item == ItemIn(rows)
           g == answer(p)
           ps == (client.pages \ {p}) \cup {g}
<1>2. client' = [client EXCEPT !.pages = ps]
  BY <1>1
<1>3. client \in Clients(saved) /\ p \in PageRequests(saved) /\ row \in Rows
  BY ReadingTyped, ClientParts
<1>4. ~Known(item) \/ item.read = row.read
  BY <1>3, ItemsRead DEF ItemIn, Known, NoThread
<1>5. g.item = item \/ (g.item = p.item /\ g.same = p.same)
  BY <1>3 DEF PageRequests
<1> HIDE DEF item, rows, g
<1>6. \A x \in ps : x \in client.pages \/ x = g
  OBVIOUS
<1> HIDE DEF ps
<1>7. /\ client'.pages = ps /\ client'.intent = client.intent
      /\ client'.writes = client.writes /\ client'.thread = client.thread
      /\ client'.homes = client.homes /\ client'.details = client.details
      /\ client'.retry = client.retry /\ client'.save = client.save
  BY <1>2, <1>3 DEF Clients
<1> HIDE DEF answer
<1>8. row' = row /\ p \in client.pages
  BY <1>1
<1>9. \A x \in ps : \/ x.item = item
                   \/ \E y \in client.pages : x.item = y.item /\ x.same = y.same
  BY <1>5, <1>6, <1>8
<1>10. QED BY <1>4, <1>7, <1>8, <1>9, OneTold, ReadingTyped

LEMMA ServeDetailReads ==
    ASSUME Reading, ServeDetail
    PROVE  ReadsSound(client', row')
<1> DEFINE answer(d) == IF Exists
                        THEN [d EXCEPT !.on = "ok", !.item = DetailItem(row)]
                        ELSE [d EXCEPT !.on = "missing"]
<1>1. PICK d \in client.details :
         /\ client' = [client EXCEPT !.details = (@ \ {d}) \cup {answer(d)}]
         /\ row' = row
  BY DEF ServeDetail, server
<1> DEFINE g == answer(d)
           ds == (client.details \ {d}) \cup {g}
<1>2. client' = [client EXCEPT !.details = ds]
  BY <1>1
<1>3. client \in Clients(saved) /\ d \in DetailRequests /\ row \in Rows
  BY ReadingTyped, ClientParts
<1>4. g.item = DetailItem(row) \/ (g.item = d.item /\ g.same = d.same)
  BY <1>3 DEF DetailRequests
<1> HIDE DEF g
<1>5. \A x \in ds : x \in client.details \/ x = g
  OBVIOUS
<1> HIDE DEF ds
<1>6. /\ client'.details = ds /\ client'.intent = client.intent
      /\ client'.writes = client.writes /\ client'.thread = client.thread
      /\ client'.homes = client.homes /\ client'.pages = client.pages
      /\ client'.retry = client.retry /\ client'.save = client.save
  BY <1>2, <1>3 DEF Clients
<1> HIDE DEF answer
<1> DEFINE item == DetailItem(row)
<1>7. row' = row /\ d \in client.details /\ item.read = row.read
  BY <1>1, <1>3, ItemsRead
<1>8. \A x \in ds : \/ x.item = item
                   \/ \E y \in client.details : x.item = y.item /\ x.same = y.same
  BY <1>4, <1>5, <1>7
<1> HIDE DEF item
<1>9. QED BY <1>6, <1>7, <1>8, OneTold, ReadingTyped

(* A retry or a save is answered with the row as it is.                    *)
LEMMA AnswerReads ==
    ASSUME Reading, row' \in Rows, row'.read = row.read,
           client'.intent = client.intent, client'.writes = client.writes,
           client'.thread = client.thread, client'.homes = client.homes,
           client'.pages = client.pages, client'.details = client.details,
           client'.retry.item \in {client.retry.item, RowItem(row')},
           client'.save.item \in {client.save.item, RowItem(row'), NoThread}
    PROVE  ReadsSound(client', row')
<1>1. RowItem(row').read = row.read
  BY DEF RowItem, ListItem
<1> DEFINE item == RowItem(row')
<1>2. /\ item.read = row.read
      /\ client'.retry.item \in {client.retry.item, item}
      /\ client'.save.item \in {client.save.item, item, NoThread}
  BY <1>1
<1> HIDE DEF item
<1>3. QED BY <1>2, OneTold, ReadingTyped

LEMMA ServeRetryReads ==
    ASSUME Reading, ServeRetry
    PROVE  ReadsSound(client', row')
<1>1. client \in Clients(saved) /\ row \in Rows /\ client.retry \in Requests
  BY ReadingTyped, ClientParts
<1>2. row' \in Rows /\ row'.read = row.read
  <2>1. \A key : StartsGeneration(key) /\ StartGeneration => row' \in Rows
    BY <1>1, GenerationStarted
  <2>2. StartGeneration => row'.read = row.read
    BY <1>1 DEF StartGeneration, Rows
  <2>3. QED BY <1>1, <2>1, <2>2 DEF ServeRetry
<1>3. /\ client'.intent = client.intent /\ client'.writes = client.writes
      /\ client'.thread = client.thread /\ client'.homes = client.homes
      /\ client'.pages = client.pages /\ client'.details = client.details
      /\ client'.save = client.save
  BY <1>1 DEF ServeRetry, Clients
<1>4. client'.retry.item \in {client.retry.item, RowItem(row')}
  <2>1. CASE client' = [client EXCEPT !.retryKey = "known", !.retry =
                           [on |-> "ok", item |-> RowItem(row')]]
    BY <1>1, <2>1 DEF Clients
  <2>2. CASE row' = row /\ client' = [client EXCEPT !.retry =
                                         [on |-> "ok", item |-> RowItem(row)]]
    BY <1>1, <2>2 DEF Clients
  <2>3. CASE client' = [client EXCEPT !.retry.on = "refused"]
    <3>1. [client.retry EXCEPT !.on = "refused"].item = client.retry.item
      BY <1>1 DEF Requests
    <3>2. client'.retry = [client.retry EXCEPT !.on = "refused"]
      BY <1>1, <2>3 DEF Clients
    <3>3. QED BY <3>1, <3>2
  <2>4. QED BY <2>1, <2>2, <2>3 DEF ServeRetry
<1>5. QED BY <1>2, <1>3, <1>4, AnswerReads

LEMMA ServeSaveReads ==
    ASSUME Reading, ServeSave
    PROVE  ReadsSound(client', row')
<1>1. client \in Clients(saved) /\ row' = row /\ row \in Rows
  BY ReadingTyped DEF ServeSave
<1>2. /\ client'.intent = client.intent /\ client'.writes = client.writes
      /\ client'.thread = client.thread /\ client'.homes = client.homes
      /\ client'.pages = client.pages /\ client'.details = client.details
      /\ client'.retry = client.retry
      /\ client'.save.item \in {NoThread, RowItem(row)}
  BY <1>1 DEF ServeSave, Clients
<1>3. QED BY <1>1, <1>2, AnswerReads

(* The row's read status is written.                                       *)
LEMMA ServeReadReads ==
    ASSUME Reading, ServeRead, Exists
    PROVE  ReadsSound(client', row')
<1> DEFINE w == client.writes[1]
           ws == client'.writes
<1>1. saved \in Nat /\ client \in Clients(saved) /\ row \in Rows
      /\ ReadsSound(client, row)
  BY ReadingTyped
<1>2. /\ client.writes # <<>> /\ WriteRead(w.status)
      /\ client' = [client EXCEPT !.writes[1].on = "ok",
                                  !.writes[1].item = RowItem(row')]
  BY DEF ServeRead
<1>3. client.writes \in Seq(Writes) /\ w \in Writes /\ 1 \in 1 .. Len(client.writes)
      /\ Len(client.writes) \in Nat \ {0}
  BY <1>1, <1>2, ClientParts, EmptySeq
<1>4. w.status \in ReadStatus
  BY <1>3 DEF Writes
<1>5. /\ row' \in Rows /\ row'.read = w.status /\ row'.at = row.at + 1
      /\ row.at \in Nat
  BY <1>1, <1>2, <1>4, RowWritten DEF WriteRead, Rows
<1>6. RowItem(row') \in Threads /\ RowItem(row').at = row'.at
      /\ RowItem(row').read = row'.read /\ Known(RowItem(row'))
  <2>1. row'.gen # 0
    BY <1>5, Numbers
  <2>2. QED BY <1>5, <2>1, RowItemsTyped DEF RowItem, ListItem, Known
<1> DEFINE g == [w EXCEPT !.on = "ok", !.item = RowItem(row')]
<1>7. /\ g \in Writes /\ g.on = "ok" /\ g.item = RowItem(row')
      /\ g.status = w.status /\ g.last = w.last
  BY <1>3, <1>6 DEF Writes
<1>8. /\ ws = [client.writes EXCEPT ![1] = g]
      /\ client'.intent = client.intent /\ client'.thread = client.thread
      /\ client'.homes = client.homes /\ client'.pages = client.pages
      /\ client'.details = client.details
      /\ client'.retry = client.retry /\ client'.save = client.save
  <2> DEFINE sent == [w EXCEPT !.on = "ok"]
             ws1 == [client.writes EXCEPT ![1] = sent]
             c1 == [client EXCEPT !.writes = ws1]
  <2>1. client' = [c1 EXCEPT !.writes[1].item = RowItem(row')]
    BY <1>2
  <2>2. c1.writes = ws1 /\ ws1[1] = sent
    BY <1>1, <1>3 DEF Clients
  <2>3. [sent EXCEPT !.item = RowItem(row')] = g
    BY <1>3 DEF Writes
  <2>4. [ws1 EXCEPT ![1] = g] = [client.writes EXCEPT ![1] = g]
    BY <1>3
  <2> HIDE DEF g, sent, ws1, ws
  <2>5. client' = [c1 EXCEPT !.writes = [ws1 EXCEPT ![1] = g]]
    BY <2>1, <2>2, <2>3
  <2>6. client' = [client EXCEPT !.writes = [client.writes EXCEPT ![1] = g]]
    BY <1>1, <2>4, <2>5 DEF Clients
  <2>7. QED BY <1>1, <2>6 DEF Clients, ws
<1> HIDE DEF g, ws, w
<1>9. /\ ws \in Seq(Writes) /\ Len(ws) = Len(client.writes)
      /\ \A i \in 1 .. Len(client.writes) : ws[i] = IF i = 1 THEN g ELSE client.writes[i]
  BY <1>2, <1>3, <1>7, <1>8, SeqUpdate
<1>10. Told(client') = Told(client)
  BY <1>8 DEF Told
<1>11. QueueOrdered(client)
  BY <1>1 DEF ReadsSound
<1> DEFINE l == Len(client.writes)
<1>12. \A i \in 1 .. l : /\ ws[i].status = client.writes[i].status
                         /\ ws[i].last = client.writes[i].last
                         /\ ws[i].on = IF i = 1 THEN "ok" ELSE client.writes[i].on
  BY <1>7, <1>9 DEF w
<1>13. QueueOrdered(client')
  <2>1. l \in Nat \ {0} /\ Len(ws) = l
    BY <1>3, <1>9
  <2>2. l \in 1 .. l
    BY <2>1
  <2> HIDE DEF l
  <2>3. /\ client.intent.pending /\ client.writes[l].status = client.intent.status
        /\ \A i \in 1 .. l : /\ client.writes[i].last <=> i = l
                             /\ client.writes[i].on # "missing"
                             /\ i > 1 => client.writes[i].on = "queued"
    BY <1>2, <1>11 DEF QueueOrdered, l
  <2>4. ws[l].status = client'.intent.status /\ client'.intent.pending
    BY <1>8, <1>12, <2>2, <2>3
  <2>5. \A i \in 1 .. l : /\ ws[i].last <=> i = l
                          /\ ws[i].on # "missing"
                          /\ i > 1 => ws[i].on = "queued"
    BY <1>12, <2>3
  <2>6. QED BY <2>1, <2>4, <2>5 DEF QueueOrdered, ws
<1>14. ReadsAgree(client', row')
  <2>1. client.intent.pending /\ client.intent # NoIntent
    <3>1. client.intent.pending
      BY <1>2, <1>11 DEF QueueOrdered
    <3>2. QED BY <3>1 DEF NoIntent
  <2>2. Known(client.thread) => client.thread.read = client.intent.status
    BY <1>1, <2>1 DEF ReadsSound, ReadsAgree
  <2>3. QED BY <1>8, <2>1, <2>2 DEF ReadsAgree
<1>15. WriteServed(client', row')
  <2>1. client'.writes[1] = g
    BY <1>3, <1>9 DEF ws
  <2>2. \A u \in Told(client) : u[1].at <= row.at /\ u[1].at \in Nat
    <3>1. TAKE u \in Told(client)
    <3>2. u[1] \in Marks(client)
      BY ToldMarks
    <3>3. u[1] \in Threads
      BY <1>1, ToldTyped
    <3>4. QED BY <3>2, <3>3, Numbers DEF Reading, AnswersOrdered
  <2>3. \A u \in Told(client') : ~(u[1].at >= g.item.at)
    BY <1>5, <1>6, <1>7, <1>10, <2>2
  <2>4. QED BY <1>5, <1>6, <1>7, <2>1, <2>3 DEF WriteServed
<1>16. QED BY <1>13, <1>14, <1>15 DEF ReadsSound

(* A step of the server that tells the hook nothing of the read status.    *)
LEMMA AsideReads ==
    ASSUME Reading, row'.read = row.read,
           client'.intent = client.intent, client'.writes = client.writes,
           client'.thread = client.thread, client'.homes = client.homes,
           client'.pages = client.pages, client'.details = client.details,
           client'.retry.item \in {client.retry.item, NoThread},
           client'.save.item \in {client.save.item, NoThread}
    PROVE  ReadsSound(client', row')
<1>1. Keeps(client, client')
  BY AsideKeeps
<1>2. QED BY <1>1, KeptSound, RowSound, ReadingTyped

LEMMA ServeStrayReads ==
    ASSUME Reading, ServeStray, ~seen'.late
    PROVE  ReadsSound(client', row')
<1>1. /\ client \in Clients(saved) /\ row \in Rows
      /\ strays \subseteq Strays /\ seen \in [mixed : BOOLEAN, late : BOOLEAN]
  BY DEF Reading, LibraryTyped
<1>2. PICK s \in strays :
        /\ CASE s = "removal" ->
                  present' = present \ {Focus} /\ UNCHANGED <<row, saved>>
             [] s = "save" -> AddRow /\ UNCHANGED row
             [] s = "retry" -> /\ StartsGeneration(client.retryKey)
                               /\ StartGeneration
                               /\ UNCHANGED <<present, saved>>
             [] s = "variant" -> /\ Exists /\ row.res # 0
                                 /\ MakeVariant
                                 /\ UNCHANGED <<present, saved>>
             [] OTHER -> /\ Exists
                         /\ WriteRead(s)
                         /\ UNCHANGED <<present, saved>>
        /\ client' = IF s = "retry" /\ client.retryKey = "unknown"
                     THEN [client EXCEPT !.retryKey = "known"] ELSE client
        /\ seen' = [seen EXCEPT !.late = @ \/ s \in ReadStatus \cup {"retry"}]
  BY DEF ServeStray
<1>3. s \in {"removal", "save", "variant"}
  BY <1>1, <1>2 DEF Strays
<1>4. client' = client
  BY <1>2, <1>3
<1>5. row'.read = row.read
  <2>1. s \in {"removal", "save"} => row' = row
    BY <1>2
  <2>2. s = "variant" => row'.read = row.read
    BY <1>1, <1>2 DEF MakeVariant, Rows
  <2>3. QED BY <1>3, <2>1, <2>2
<1>6. QED BY <1>4, <1>5, AsideReads

(* The other steps of the server.                                          *)
LEMMA ServerReads ==
    ASSUME Reading,
           \/ \E phase \in {"done", "failed"} : Summarize(phase)
           \/ FinishVariant \/ ServeStatus \/ ServeVariant \/ ServeRemoval
    PROVE  ReadsSound(client', row')
<1>1. client \in Clients(saved) /\ row \in Rows
  BY ReadingTyped
<1>2. row'.read = row.read
  BY <1>1 DEF Summarize, FinishVariant, ServeStatus, ServeVariant, ServeRemoval,
              MakeVariant, server, Rows
<1>3. /\ client'.intent = client.intent /\ client'.writes = client.writes
      /\ client'.thread = client.thread /\ client'.homes = client.homes
      /\ client'.pages = client.pages /\ client'.details = client.details
      /\ client'.retry = client.retry /\ client'.save = client.save
  BY <1>1 DEF Summarize, FinishVariant, ServeStatus, ServeVariant, ServeRemoval,
              Clients
<1>4. QED BY <1>2, <1>3, AsideReads

LEMMA LoseReads ==
    ASSUME Reading, Lose
    PROVE  ReadsSound(client', row')
<1>1. saved \in Nat /\ client \in Clients(saved) /\ ReadsSound(client, row)
  BY ReadingTyped
<1>2. row' = row
  BY DEF Lose, LoseHome, LosePage, LoseDetail, LoseStatus, LoseRead, LoseRetry,
         LoseVariant, LoseSave, LoseRemoval, server
<1>3. CASE LoseHome \/ LosePage \/ LoseDetail
  <2>1. /\ client'.intent = client.intent /\ client'.writes = client.writes
        /\ client'.thread = client.thread
        /\ client'.retry = client.retry /\ client'.save = client.save
        /\ client'.homes \subseteq client.homes
        /\ client'.pages \subseteq client.pages
        /\ client'.details \subseteq client.details
    <3>1. CASE LoseHome
      BY <1>1, <3>1 DEF LoseHome, Clients
    <3>2. CASE LosePage
      <4>1. PICK p \in client.pages :
               \/ client' = [client EXCEPT !.pages = client.pages \ {p},
                                           !.moreBusy = FALSE, !.archiveError = TRUE]
               \/ client' = [client EXCEPT !.pages = client.pages \ {p}]
        BY <3>2 DEF LosePage
      <4> DEFINE ps == client.pages \ {p}
      <4>2. ps \subseteq client.pages
        OBVIOUS
      <4> HIDE DEF ps
      <4>3. CASE client' = [client EXCEPT !.pages = ps, !.moreBusy = FALSE,
                                          !.archiveError = TRUE]
        BY <1>1, <4>2, <4>3 DEF Clients
      <4>4. CASE client' = [client EXCEPT !.pages = ps]
        BY <1>1, <4>2, <4>4 DEF Clients
      <4>5. QED BY <4>1, <4>3, <4>4 DEF ps
    <3>3. CASE LoseDetail
      BY <1>1, <3>3 DEF LoseDetail, Clients
    <3>4. QED BY <1>3, <3>1, <3>2, <3>3
  <2>2. Keeps(client, client')
    BY <2>1 DEF Keeps, Told
  <2>3. QED BY <1>1, <1>2, <2>2, KeptSound
<1>4. CASE LoseStatus \/ LoseRetry \/ LoseVariant \/ LoseSave \/ LoseRemoval
  <2>1. /\ client'.intent = client.intent /\ client'.writes = client.writes
        /\ client'.thread = client.thread /\ client'.homes = client.homes
        /\ client'.pages = client.pages /\ client'.details = client.details
        /\ client'.retry \in {client.retry, NoRequest}
        /\ client'.save \in {client.save, NoSave}
    BY <1>1, <1>4 DEF LoseStatus, LoseRetry, LoseVariant, LoseSave, LoseRemoval,
                      Clients
  <2>2. QED BY <1>2, <2>1, AsideReads DEF NoRequest, NoSave
<1>5. CASE LoseRead
  <2>1. client.writes # <<>>
        /\ client' = StartWrite([client EXCEPT !.writes = Tail(client.writes)])
    BY <1>5 DEF LoseRead
  <2>2. QED BY <1>1, <1>2, <2>1, TailSound, StartWriteSound
<1>6. QED BY <1>3, <1>4, <1>5 DEF Lose

-----------------------------------------------------------------------------
(* The steps that hear an answer.                                          *)

(* The request is taken out of those in flight and its item received.      *)
LEMMA HearTold ==
    ASSUME NEW n \in Nat, NEW c \in Clients(n), NEW d \in Clients(n), NEW r,
           ReadsSound(c, r), Keeps(c, d), NEW i \in Threads, NEW same,
           <<i, same>> \in Told(c)
    PROVE  ReadsSound(Receive(d, i, same), r) /\ Receive(d, i, same) \in Clients(n)
<1>1. ReadsSound(d, r) /\ ReadsAgree(c, r)
  BY KeptSound DEF ReadsSound
<1> DEFINE u == <<i, same>>
<1>2. u \in Told(c) /\ u[1] = i /\ u[2] = same
  OBVIOUS
<1> HIDE DEF u
<1>3. c.intent = NoIntent /\ Known(i) => i.read = r.read
  BY <1>1, <1>2 DEF ReadsAgree
<1>4. ~c.intent.pending /\ same /\ Known(i) => Agrees(i, c.thread, r)
  BY <1>1, <1>2 DEF ReadsAgree
<1>5. Hearable(d, r, i, same)
  BY <1>3, <1>4 DEF Hearable, Keeps, Agrees, Known, IsOlder
<1>6. QED BY <1>1, <1>5, ReceiveSound, ReceiveFits

(* What is put aside when the answer has been received, and the effects.   *)
LEMMA AsideThenEffects ==
    ASSUME NEW n \in Nat, NEW c \in Clients(n), NEW d \in Clients(n), NEW r,
           ReadsSound(c, r),
           d.intent = c.intent, d.writes = c.writes, d.thread = c.thread,
           d.homes = c.homes, d.pages = c.pages, d.details = c.details,
           d.retry = c.retry, d.save = c.save
    PROVE  ReadsSound(Effects(d), r)
  BY AsideKeeps, KeepsThenEffects

LEMMA HearHomeReads ==
    ASSUME Reading, HearHome
    PROVE  ReadsSound(client', row')
<1>1. PICK h \in client.homes : client' = HomeAnswer(h) /\ row' = row
  BY DEF HearHome, server
<1>2. saved \in Nat /\ client \in Clients(saved) /\ ReadsSound(client, row)
  BY ReadingTyped
<1> DEFINE hs == client.homes \ {h}
           rest == [client EXCEPT !.homes = hs]
           heard == Receive(rest, h.item, h.same)
           home == WithoutRemoved(heard, h.rows)
           d == [heard EXCEPT !.home = home]
<1>3. h \in HomeRequests(saved) /\ <<h.item, h.same>> \in Told(client)
  BY <1>2, ClientParts DEF Told
<1>4. h.item \in Threads /\ h.rows \in Lists(saved)
  BY <1>3 DEF HomeRequests
<1>5. hs \in SUBSET HomeRequests(saved) /\ hs \subseteq client.homes
  BY <1>2, ClientParts
<1> HIDE DEF hs
<1>6. /\ rest \in Clients(saved)
      /\ rest.homes = hs /\ rest.intent = client.intent
      /\ rest.writes = client.writes /\ rest.thread = client.thread
      /\ rest.pages = client.pages /\ rest.details = client.details
      /\ rest.retry = client.retry /\ rest.save = client.save
  BY <1>2, <1>5 DEF Clients
<1>7. client' \in {rest, Effects(d)}
  BY <1>1 DEF HomeAnswer, hs
<1> HIDE DEF rest
<1>8. Keeps(client, rest)
  BY <1>5, <1>6 DEF Keeps, Told
<1>9. heard \in Clients(saved) /\ ReadsSound(heard, row)
  BY <1>2, <1>3, <1>4, <1>6, <1>8, HearTold
<1> HIDE DEF heard
<1>10. home \in Lists(saved)
  BY <1>2, <1>4, WithoutRemovedFits
<1> HIDE DEF home
<1>11. /\ d \in Clients(saved) /\ d.intent = heard.intent
       /\ d.writes = heard.writes /\ d.thread = heard.thread
       /\ d.homes = heard.homes /\ d.pages = heard.pages
       /\ d.details = heard.details /\ d.retry = heard.retry /\ d.save = heard.save
  BY <1>9, <1>10 DEF Clients
<1> HIDE DEF d
<1>12. ReadsSound(Effects(d), row)
  BY <1>2, <1>9, <1>11, AsideThenEffects
<1>13. ReadsSound(rest, row)
  BY <1>2, <1>8, KeptSound
<1>14. QED BY <1>1, <1>7, <1>12, <1>13

LEMMA HearPageReads ==
    ASSUME Reading, HearPage
    PROVE  ReadsSound(client', row')
<1>1. PICK p \in client.pages : client' = PageAnswer(p) /\ row' = row
  BY DEF HearPage, server
<1>2. saved \in Nat /\ client \in Clients(saved) /\ ReadsSound(client, row)
  BY ReadingTyped
<1> DEFINE ps == client.pages \ {p}
           rest == [client EXCEPT !.pages = ps]
           ended == [rest EXCEPT !.moreBusy = FALSE]
           failed == [ended EXCEPT !.archiveError = TRUE]
           heard == Receive(ended, p.item, p.same)
           rows == WithoutRemoved(heard, p.rows)
           archive == IF p.more THEN AppendUnique(heard.archive, rows) ELSE rows
           d == [heard EXCEPT !.archive = archive, !.cursor = p.next,
                              !.archiveError = FALSE]
<1>3. p \in PageRequests(saved) /\ <<p.item, p.same>> \in Told(client)
  BY <1>2, ClientParts DEF Told
<1>4. p.item \in Threads /\ p.rows \in Lists(saved) /\ p.next \in Cursors
  BY <1>3 DEF PageRequests
<1>5. ps \in SUBSET PageRequests(saved) /\ ps \subseteq client.pages
  BY <1>2, ClientParts
<1> HIDE DEF ps
<1> DEFINE Fits(c) == /\ c.pages = ps /\ c.intent = client.intent
                      /\ c.writes = client.writes /\ c.thread = client.thread
                      /\ c.homes = client.homes /\ c.details = client.details
                      /\ c.retry = client.retry /\ c.save = client.save
<1>6. /\ rest \in Clients(saved) /\ Fits(rest)
      /\ ended \in Clients(saved) /\ Fits(ended)
      /\ failed \in Clients(saved) /\ Fits(failed)
  BY <1>2, <1>5 DEF Clients
<1>7. client' \in {rest, failed, Effects(d)}
  BY <1>1 DEF PageAnswer, ps
<1> HIDE DEF rest, ended, failed
<1>8. \A c : Fits(c) => Keeps(client, c)
  BY <1>5 DEF Keeps, Told
<1>9. heard \in Clients(saved) /\ ReadsSound(heard, row)
  BY <1>2, <1>3, <1>4, <1>6, <1>8, HearTold
<1> HIDE DEF heard
<1>10. rows \in Lists(saved)
  BY <1>2, <1>4, WithoutRemovedFits
<1> HIDE DEF rows
<1>11. archive \in Lists(saved)
  <2>1. heard.archive \in Lists(saved)
    BY <1>2, <1>9, ClientParts
  <2>2. AppendUnique(heard.archive, rows) \in Lists(saved)
    BY <1>2, <1>10, <2>1, AppendUniqueFits
  <2>3. QED BY <1>10, <2>2
<1> HIDE DEF archive
<1>12. /\ d \in Clients(saved) /\ d.intent = heard.intent
       /\ d.writes = heard.writes /\ d.thread = heard.thread
       /\ d.homes = heard.homes /\ d.pages = heard.pages
       /\ d.details = heard.details /\ d.retry = heard.retry /\ d.save = heard.save
  BY <1>4, <1>9, <1>11 DEF Clients
<1> HIDE DEF d
<1>13. ReadsSound(Effects(d), row)
  BY <1>2, <1>9, <1>12, AsideThenEffects
<1>14. ReadsSound(rest, row) /\ ReadsSound(failed, row)
  BY <1>2, <1>6, <1>8, KeptSound
<1>15. QED BY <1>1, <1>7, <1>13, <1>14

LEMMA HearDetailReads ==
    ASSUME Reading, HearDetail
    PROVE  ReadsSound(client', row')
<1>1. PICK d \in client.details : client' = DetailAnswer(d) /\ row' = row
  BY DEF HearDetail, server
<1>2. saved \in Nat /\ client \in Clients(saved) /\ ReadsSound(client, row)
  BY ReadingTyped
<1> DEFINE ds == client.details \ {d}
           rest == [client EXCEPT !.details = ds]
           heard == Receive(rest, d.item, d.same)
           err == heard.detailError /\ ~client.open
           e == [heard EXCEPT !.detailError = err]
           gone == rest.removed \/ d.on = "missing"
           bad == rest.detailError \/ client.open
           lost == [rest EXCEPT !.removed = gone, !.detailError = bad]
<1>3. d \in DetailRequests /\ <<d.item, d.same>> \in Told(client)
  BY <1>2, ClientParts DEF Told
<1>4. d.item \in Threads
  BY <1>3 DEF DetailRequests
<1>5. ds \in SUBSET DetailRequests /\ ds \subseteq client.details
  BY <1>2, ClientParts
<1> HIDE DEF ds
<1> DEFINE Fits(c) == /\ c.details = ds /\ c.intent = client.intent
                      /\ c.writes = client.writes /\ c.thread = client.thread
                      /\ c.homes = client.homes /\ c.pages = client.pages
                      /\ c.retry = client.retry /\ c.save = client.save
<1>6. rest \in Clients(saved) /\ Fits(rest)
  BY <1>2, <1>5 DEF Clients
<1>7. client' \in {lost, Effects(e)}
  BY <1>1 DEF DetailAnswer, ds
<1> HIDE DEF rest, gone, bad
<1>8. Fits(lost)
  BY <1>6 DEF Clients
<1>9. \A c : Fits(c) => Keeps(client, c)
  BY <1>5 DEF Keeps, Told
<1>10. heard \in Clients(saved) /\ ReadsSound(heard, row)
  BY <1>2, <1>3, <1>4, <1>6, <1>9, HearTold
<1> HIDE DEF heard, lost
<1>11. err \in BOOLEAN
  BY <1>2, <1>10, ClientParts
<1> HIDE DEF err
<1>12. /\ e \in Clients(saved) /\ e.intent = heard.intent
       /\ e.writes = heard.writes /\ e.thread = heard.thread
       /\ e.homes = heard.homes /\ e.pages = heard.pages
       /\ e.details = heard.details /\ e.retry = heard.retry /\ e.save = heard.save
  BY <1>10, <1>11 DEF Clients
<1> HIDE DEF e
<1>13. ReadsSound(Effects(e), row)
  BY <1>2, <1>10, <1>12, AsideThenEffects
<1>14. ReadsSound(lost, row)
  BY <1>2, <1>8, <1>9, KeptSound
<1>15. QED BY <1>1, <1>7, <1>13, <1>14

(* The status of the summary has no read status.                           *)
LEMMA HearStatusReads ==
    ASSUME Reading, HearStatus
    PROVE  ReadsSound(client', row')
<1>1. client' = StatusAnswer /\ row' = row
  BY DEF HearStatus, server
<1>2. saved \in Nat /\ client \in Clients(saved) /\ ReadsSound(client, row)
  BY ReadingTyped
<1> DEFINE rest == [client EXCEPT !.status = NoRequest]
           item == StatusItem(client.thread, client.status.item)
           merged == Merge(client.thread, item)
           told == [rest EXCEPT !.thread = merged]
           gone == [rest EXCEPT !.removed = TRUE]
           asked == FetchDetail(told, FALSE, {"poll"})
<1>3. client.status.item \in Threads /\ client.thread \in Threads
  <2>1. client.status \in Requests /\ client.thread \in Threads
    BY <1>2, ClientParts
  <2>2. QED BY <2>1 DEF Requests
<1>4. item \in Threads /\ item.read = client.thread.read
  BY <1>3, MergeTyped DEF StatusItem, Threads
<1>5. \/ client' = rest \/ client' = gone
      \/ Known(client.thread) /\ client' \in {Effects(told), Effects(asked)}
  BY <1>1 DEF StatusAnswer, HearStatus
<1> HIDE DEF item
<1>6. merged \in Threads /\ merged.read = client.thread.read
  BY <1>3, <1>4, MergeTyped, MergeRead
<1>7. \A x \in Told(client) : Known(client.thread) /\ IsOlder(x[1], client.thread)
                                 => Known(merged) /\ IsOlder(x[1], merged)
  BY <1>2, <1>3, <1>4, ToldTyped, MergeLater
<1> HIDE DEF merged
<1> DEFINE Fits(c) == /\ c.intent = client.intent /\ c.writes = client.writes
                      /\ c.homes = client.homes /\ c.pages = client.pages
                      /\ c.details = client.details
                      /\ c.retry = client.retry /\ c.save = client.save
<1>8. /\ Fits(rest) /\ rest.thread = client.thread
      /\ Fits(gone) /\ gone.thread = client.thread
      /\ Fits(told) /\ told.thread = merged /\ told \in Clients(saved)
  BY <1>2, <1>6, ItemDefaults DEF Clients
<1> HIDE DEF rest, told, gone
<1>9. ReadsSound(rest, row) /\ ReadsSound(gone, row)
  BY <1>2, <1>8, AsideKeeps, KeptSound
<1>10. ASSUME Known(client.thread) PROVE ReadsSound(told, row)
  <2>1. Told(told) = Told(client)
    BY <1>8 DEF Told
  <2>2. ReadsAgree(client, row)
    BY <1>2 DEF ReadsSound
  <2>3. /\ client.intent # NoIntent => merged.read = client.intent.status
        /\ client.intent = NoIntent => merged.read = row.read
    BY <1>6, <1>10, <2>2 DEF ReadsAgree
  <2>4. QED BY <1>2, <1>7, <1>8, <2>1, <2>3, ThreadSound
<1>11. asked \in Clients(saved) /\ Keeps(told, asked)
  BY <1>2, <1>8, FetchDetailFits, FetchDetailKeeps DEF Waits
<1> HIDE DEF asked
<1>12. Known(client.thread) => /\ ReadsSound(Effects(told), row)
                               /\ ReadsSound(Effects(asked), row)
  BY <1>2, <1>8, <1>10, <1>11, EffectsSound, KeepsThenEffects
<1>13. QED BY <1>1, <1>5, <1>9, <1>12

LEMMA HearRetryReads ==
    ASSUME Reading, HearRetry
    PROVE  ReadsSound(client', row')
<1> DEFINE rest == [client EXCEPT !.retry = NoRequest, !.retryKey = None]
           item == client.retry.item
           heard == Receive(rest, item, TRUE)
<1>1. client' = Effects(heard) /\ row' = row
  BY DEF HearRetry, server
<1>2. saved \in Nat /\ client \in Clients(saved) /\ ReadsSound(client, row)
  BY ReadingTyped
<1>3. client.retry \in Requests /\ <<item, TRUE>> \in Told(client)
  BY <1>2, ClientParts DEF Told
<1>4. item \in Threads
  BY <1>3 DEF Requests
<1>5. /\ rest \in Clients(saved)
      /\ rest.intent = client.intent /\ rest.writes = client.writes
      /\ rest.thread = client.thread /\ rest.homes = client.homes
      /\ rest.pages = client.pages /\ rest.details = client.details
      /\ rest.retry = NoRequest /\ rest.save = client.save
  BY <1>2, ItemDefaults DEF Clients
<1> HIDE DEF rest, item
<1>6. Keeps(client, rest)
  BY <1>5, AsideKeeps DEF NoRequest
<1>7. heard \in Clients(saved) /\ ReadsSound(heard, row)
  BY <1>2, <1>3, <1>4, <1>5, <1>6, HearTold
<1>8. QED BY <1>1, <1>2, <1>7, EffectsSound

LEMMA HearVariantReads ==
    ASSUME Reading, HearVariant
    PROVE  ReadsSound(client', row')
<1>1. client' = VariantAnswer /\ row' = row
  BY DEF HearVariant, server
<1>2. saved \in Nat /\ client \in Clients(saved) /\ ReadsSound(client, row)
  BY ReadingTyped
<1> DEFINE rest == [client EXCEPT !.variant = NoRequest]
           failed == [rest EXCEPT !.densityError = client.open /\ client.density]
           t == [client.thread EXCEPT !.variant = client.variant.item.variant]
           shown == [rest EXCEPT !.thread = t]
<1>3. rest \in Clients(saved) /\ rest.thread = client.thread
  BY <1>2, ItemDefaults DEF Clients
<1>4. client' \in {rest, failed, Effects(shown)}
  <2>1. [rest EXCEPT !.thread.variant = client.variant.item.variant] = shown
    BY <1>2, <1>3
  <2>2. QED BY <1>1, <2>1 DEF VariantAnswer
<1>5. client.thread \in Threads /\ client.variant.item \in Threads
  <2>1. client.variant \in Requests /\ client.thread \in Threads
    BY <1>2, ClientParts
  <2>2. QED BY <2>1 DEF Requests
<1>6. /\ t \in Threads /\ t.read = client.thread.read
      /\ t.gen = client.thread.gen /\ t.at = client.thread.at
  BY <1>5 DEF Threads
<1> HIDE DEF t
<1> DEFINE Fits(c) == /\ c.intent = client.intent /\ c.writes = client.writes
                      /\ c.homes = client.homes /\ c.pages = client.pages
                      /\ c.details = client.details
                      /\ c.retry = client.retry /\ c.save = client.save
<1>7. /\ Fits(rest) /\ Fits(failed) /\ failed.thread = client.thread
      /\ Fits(shown) /\ shown.thread = t /\ shown \in Clients(saved)
  BY <1>2, <1>6, ItemDefaults DEF Clients
<1> HIDE DEF rest, failed, shown
<1>8. Keeps(client, rest) /\ Keeps(client, failed)
  BY <1>3, <1>7, AsideKeeps
<1>9. Keeps(client, shown)
  BY <1>6, <1>7 DEF Keeps, Told
<1>10. QED BY <1>1, <1>2, <1>4, <1>7, <1>8, <1>9, KeptSound, KeepsThenEffects

LEMMA HearSaveReads ==
    ASSUME Reading, HearSave
    PROVE  ReadsSound(client', row')
<1> DEFINE rest == [client EXCEPT !.save = NoSave]
           item == client.save.item
           heard == Receive(rest, item, TRUE)
           top == client.save.row
           home == <<top>> \o Without(heard.home, {top})
           d == [heard EXCEPT !.home = home]
<1>1. client' = Effects(d) /\ row' = row
  BY DEF HearSave, SaveAnswer, server
<1>2. saved \in Nat /\ client \in Clients(saved) /\ ReadsSound(client, row)
  BY ReadingTyped
<1>3. client.save \in Saves(saved) /\ <<item, TRUE>> \in Told(client)
      /\ client.save.on \in {"new", "known"}
  BY <1>2, ClientParts DEF Told, HearSave
<1>4. item \in Threads /\ top \in 1 .. saved
  BY <1>2, <1>3 DEF Saves
<1>5. /\ rest \in Clients(saved)
      /\ rest.intent = client.intent /\ rest.writes = client.writes
      /\ rest.thread = client.thread /\ rest.homes = client.homes
      /\ rest.pages = client.pages /\ rest.details = client.details
      /\ rest.retry = client.retry /\ rest.save = NoSave
  BY <1>2, ItemDefaults DEF Clients
<1> HIDE DEF rest, item, top
<1>6. Keeps(client, rest)
  BY <1>5, AsideKeeps DEF NoSave
<1>7. heard \in Clients(saved) /\ ReadsSound(heard, row)
  BY <1>2, <1>3, <1>4, <1>5, <1>6, HearTold
<1> HIDE DEF heard
<1>8. home \in Lists(saved)
  BY <1>2, <1>4, <1>7, ClientParts, OnTopFits
<1> HIDE DEF home
<1>9. /\ d \in Clients(saved) /\ d.intent = heard.intent
      /\ d.writes = heard.writes /\ d.thread = heard.thread
      /\ d.homes = heard.homes /\ d.pages = heard.pages
      /\ d.details = heard.details /\ d.retry = heard.retry /\ d.save = heard.save
  BY <1>7, <1>8 DEF Clients
<1> HIDE DEF d
<1>10. QED BY <1>1, <1>2, <1>7, <1>9, AsideThenEffects

LEMMA HearRemovalReads ==
    ASSUME Reading, HearRemoval
    PROVE  ReadsSound(client', row')
<1>1. saved \in Nat /\ client \in Clients(saved) /\ ReadsSound(client, row)
  BY ReadingTyped
<1> DEFINE rest == [client EXCEPT !.removal = NoRequest]
           home == Without(rest.home, {Focus})
           archive == Without(rest.archive, {Focus})
           gone == [rest EXCEPT !.removed = TRUE, !.home = home, !.archive = archive]
<1>2. client' \in {rest, gone, Close(gone)} /\ row' = row
  BY DEF HearRemoval, server
<1>3. /\ rest \in Clients(saved)
      /\ rest.intent = client.intent /\ rest.writes = client.writes
      /\ rest.thread = client.thread /\ rest.homes = client.homes
      /\ rest.pages = client.pages /\ rest.details = client.details
      /\ rest.retry = client.retry /\ rest.save = client.save
  BY <1>1, ItemDefaults DEF Clients
<1> HIDE DEF rest
<1>4. home \in Lists(saved) /\ archive \in Lists(saved)
  BY <1>1, <1>3, ClientParts, WithoutFits
<1> HIDE DEF home, archive
<1>5. /\ gone \in Clients(saved)
      /\ gone.intent = rest.intent /\ gone.writes = rest.writes
      /\ gone.thread = rest.thread /\ gone.homes = rest.homes
      /\ gone.pages = rest.pages /\ gone.details = rest.details
      /\ gone.retry = rest.retry /\ gone.save = rest.save
  BY <1>3, <1>4 DEF Clients
<1> HIDE DEF gone
<1>6. Keeps(client, rest) /\ Keeps(client, gone)
  BY <1>3, <1>5, AsideKeeps
<1>7. Keeps(gone, Close(gone))
  BY <1>1, <1>5, CloseKeeps
<1>8. QED BY <1>1, <1>2, <1>6, <1>7, KeptSound

(* What is older than an answer is older than what mergeThread makes of it. *)
LEMMA MergeAtLeast ==
    ASSUME NEW t \in Threads, NEW i \in Threads, NEW x \in Threads, Known(i),
           IsOlder(x, i)
    PROVE  Known(Merge(t, i)) /\ IsOlder(x, Merge(t, i))
<1>1. /\ t.at \in Nat /\ t.gen \in Nat /\ i.at \in Nat /\ i.gen \in Nat
      /\ x.at \in Nat /\ x.gen \in Nat
  BY Numbers
<1>2. KeepDocument(t, i).gen = i.gen /\ KeepDocument(t, i).at = i.at
  BY DEF KeepDocument, Threads
<1>3. CASE Known(t) /\ IsOlder(i, t)
  <2>1. Merge(t, i) = t
    BY <1>3 DEF Merge
  <2>2. QED BY <1>1, <1>3, <2>1 DEF IsOlder
<1>4. CASE ~(Known(t) /\ IsOlder(i, t))
  <2>1. Merge(t, i).gen = i.gen /\ Merge(t, i).at = i.at
    BY <1>2, <1>4 DEF Merge
  <2>2. QED BY <2>1 DEF IsOlder, Known
<1>5. QED BY <1>3, <1>4

(* The last choice is settled by its answer.                               *)
LEMMA SettledReads ==
    ASSUME Reading, client.writes # <<>>, client.writes[1].on = "ok",
           client.writes[1].last
    PROVE  LET w == client.writes[1]
               next == StartWrite([client EXCEPT !.writes = Tail(@)])
               settled == BumpRead([next EXCEPT !.intent.pending = FALSE])
               heard == Receive(settled, w.item, TRUE)
           IN  heard \in Clients(saved) /\ ReadsSound(heard, row)
<1> DEFINE w == client.writes[1]
           d == [client EXCEPT !.writes = Tail(client.writes)]
           i == [client.intent EXCEPT !.pending = FALSE]
           e == [d EXCEPT !.intent = i]
           b == BumpRead(e)
           t == client.thread
           m == Merge(t, w.item)
           f == [b EXCEPT !.thread = m]
<1>1. /\ saved \in Nat /\ client \in Clients(saved) /\ ReadsSound(client, row)
      /\ QueueOrdered(client) /\ ReadsAgree(client, row) /\ WriteServed(client, row)
      /\ ~client.removed /\ AnswersOrdered
  BY ReadingTyped DEF Reading, ReadsSound
<1>2. client.writes \in Seq(Writes) /\ Len(client.writes) \in Nat \ {0}
      /\ client.writes[1] \in Writes
  BY <1>1, ClientParts, EmptySeq
<1>3. Len(client.writes) = 1 /\ Tail(client.writes) = <<>>
  <2>1. 1 \in 1 .. Len(client.writes)
    BY <1>2
  <2>2. 1 = Len(client.writes)
    BY <1>1, <2>1 DEF QueueOrdered
  <2>3. Tail(client.writes) \in Seq(Writes) /\ Len(Tail(client.writes)) = 0
    BY <1>2, <2>2
  <2>4. QED BY <2>2, <2>3, EmptySeq
<1>4. /\ Known(w.item) /\ w.item.read = row.read /\ w.status = row.read
      /\ w.status = client.intent.status /\ client.intent.pending
      /\ \A u \in Told(client) :
            Known(u[1]) /\ u[1].at >= w.item.at => u[1].read = row.read
  BY <1>1, <1>3 DEF WriteServed, QueueOrdered
<1>5. w.item \in Threads /\ w.item \in Marks(client) /\ t \in Threads
      /\ client.intent \in Intents
  <2>1. 1 \in 1 .. Len(client.writes)
    BY <1>2
  <2>2. w.item \in Marks(client)
    BY <2>1 DEF Marks
  <2>3. QED BY <1>1, <1>2, <2>2, ClientParts DEF Writes
<1>6. /\ d \in Clients(saved) /\ d.thread = t /\ d.intent = client.intent
      /\ Told(d) = Told(client) /\ d.writes = <<>> /\ d.removed = client.removed
      /\ ReadsSound(d, row)
  BY <1>1, <1>3, TailSound
<1> HIDE DEF d
<1>7. StartWrite(d) = d
  BY <1>1, <1>6, StartWriteSound
<1>8. i \in Intents /\ i.status = row.read /\ ~i.pending /\ i # NoIntent
  <2>1. client.intent \in [status : ReadStatus, pending : BOOLEAN]
    BY <1>4, <1>5 DEF Intents, NoIntent
  <2>2. i.status = row.read /\ ~i.pending /\ i \in Intents /\ row.read \in ReadStatus
    BY <1>4, <2>1 DEF Intents
  <2>3. NoIntent.status \notin ReadStatus
    BY DEF NoIntent, None, ReadStatus
  <2>4. QED BY <2>2, <2>3
<1>9. [d EXCEPT !.intent.pending = FALSE] = e
  BY <1>6
<1> HIDE DEF i
<1>10. /\ e \in Clients(saved) /\ e.intent = i /\ e.thread = t /\ e.writes = <<>>
       /\ e.removed = client.removed
       /\ e.homes = d.homes /\ e.pages = d.pages /\ e.details = d.details
       /\ e.retry = d.retry /\ e.save = d.save
  BY <1>6, <1>8 DEF Clients
<1> HIDE DEF e
<1>11. Told(e) = Told(client)
  BY <1>6, <1>10 DEF Told
<1>12. /\ b \in Clients(saved) /\ b.intent = i /\ b.thread = t /\ b.writes = <<>>
       /\ b.removed = client.removed
       /\ \A u \in Told(b) : \E v \in Told(client) : u[1] = v[1]
  BY <1>1, <1>10, <1>11, BumpReadFits, BumpReadTold DEF Quiet
<1> HIDE DEF b
<1>13. m \in Threads
  BY <1>5, MergeTyped
<1>14. Known(m) => m.read = row.read
  <2>1. Known(t) => t.read = row.read
    <3>1. client.intent # NoIntent
      BY <1>4 DEF NoIntent
    <3>2. QED BY <1>1, <1>4, <3>1 DEF ReadsAgree
  <2>2. QED BY <1>4, <1>5, <2>1, MergeRead
<1>15. \A u \in Told(client) : Known(u[1]) => Agrees(u[1], m, row)
  <2>1. SUFFICES ASSUME NEW u \in Told(client), Known(u[1]), u[1].read # row.read
                 PROVE  Known(m) /\ IsOlder(u[1], m)
    BY DEF Agrees
  <2>2. u[1] \in Threads /\ u[1] \in Marks(client)
    BY <1>1, ToldTyped, ToldMarks
  <2>3. Before(u[1], w.item)
    BY <1>1, <1>5, <2>2 DEF AnswersOrdered, Moments
  <2>4. ~(u[1].at >= w.item.at)
    BY <1>4, <2>1
  <2>5. IsOlder(u[1], w.item)
    BY <1>5, <2>2, <2>3, <2>4, Numbers DEF Before, IsOlder
  <2>6. QED BY <1>4, <1>5, <2>2, <2>5, MergeAtLeast
<1> HIDE DEF m
<1>16. Receive(b, w.item, TRUE) = f
  BY <1>1, <1>4, <1>8, <1>12 DEF Receive, m
<1>17. /\ f.thread = m /\ f.intent = i /\ f.writes = <<>> /\ Told(f) = Told(b)
       /\ f \in Clients(saved)
  <2>1. f \in Clients(saved)
    BY <1>12, <1>13 DEF Clients
  <2>2. QED BY <1>1, <1>12, <2>1, OnlyThread
<1> HIDE DEF f
<1>18. QueueOrdered(f) /\ WriteServed(f, row)
  BY <1>17 DEF QueueOrdered, WriteServed
<1>19. ReadsAgree(f, row)
  <2>1. \A u \in Told(f) : Known(u[1]) => Agrees(u[1], f.thread, row)
    BY <1>12, <1>15, <1>17
  <2>2. QED BY <1>8, <1>14, <1>17, <2>1 DEF ReadsAgree
<1>20. ReadsSound(f, row)
  BY <1>18, <1>19 DEF ReadsSound
<1>21. BumpRead([StartWrite([client EXCEPT !.writes = Tail(@)])
                    EXCEPT !.intent.pending = FALSE]) = b
  BY <1>7, <1>9 DEF b, d
<1>22. QED BY <1>16, <1>17, <1>20, <1>21

LEMMA HearReadReads ==
    ASSUME Reading, HearRead
    PROVE  ReadsSound(client', row')
<1> DEFINE w == client.writes[1]
           next == StartWrite([client EXCEPT !.writes = Tail(@)])
           settled == BumpRead([next EXCEPT !.intent.pending = FALSE])
           heard == Receive(settled, w.item, TRUE)
<1>1. /\ client.writes # <<>> /\ client' = ReadAnswer(w) /\ row' = row
      /\ w.on \in {"ok", "missing"}
  BY DEF HearRead, server
<1>2. /\ saved \in Nat /\ client \in Clients(saved) /\ ReadsSound(client, row)
      /\ QueueOrdered(client)
  BY ReadingTyped DEF ReadsSound
<1>3. w.on = "ok"
  <2>1. 1 \in 1 .. Len(client.writes)
    BY <1>1, <1>2, ClientParts, EmptySeq
  <2>2. QED BY <1>1, <1>2, <2>1 DEF QueueOrdered
<1>4. CASE ~w.last
  <2>1. client' = next
    BY <1>1, <1>4 DEF ReadAnswer
  <2>2. ReadsSound(next, row)
    BY <1>1, <1>2, TailSound, StartWriteSound
  <2>3. QED BY <1>1, <2>1, <2>2
<1>5. CASE w.last
  <2>1. client' = Effects(heard)
    BY <1>1, <1>3, <1>5 DEF ReadAnswer
  <2>2. heard \in Clients(saved) /\ ReadsSound(heard, row)
    BY <1>1, <1>3, <1>5, SettledReads
  <2> HIDE DEF heard
  <2>3. QED BY <1>1, <1>2, <2>1, <2>2, EffectsSound
<1>6. QED BY <1>4, <1>5

-----------------------------------------------------------------------------
(* What the user does and what runs by itself.                             *)

LEMMA OpenReads ==
    ASSUME Reading, OpenFocus
    PROVE  ReadsSound(client', row')
<1> DEFINE visit == [client EXCEPT !.open = TRUE, !.entry = FALSE,
                                   !.detailError = FALSE, !.density = FALSE,
                                   !.densityError = FALSE]
           waits == IF client.thread.loaded THEN {} ELSE {"open"}
           asked == FetchDetail(visit, FALSE, waits)
<1>1. saved \in Nat /\ client \in Clients(saved) /\ ReadsSound(client, row)
  BY ReadingTyped
<1>2. client' = Effects(asked) /\ row' = row
  BY DEF OpenFocus, Open, Quietly, server
<1>3. /\ visit \in Clients(saved)
      /\ visit.intent = client.intent /\ visit.writes = client.writes
      /\ visit.thread = client.thread /\ visit.homes = client.homes
      /\ visit.pages = client.pages /\ visit.details = client.details
      /\ visit.retry = client.retry /\ visit.save = client.save
  BY <1>1 DEF Clients
<1>4. waits \in SUBSET Waits
  BY DEF Waits
<1> HIDE DEF visit, waits
<1>5. Keeps(client, visit)
  BY <1>3, AsideKeeps
<1>6. asked \in Clients(saved) /\ Keeps(visit, asked)
  BY <1>1, <1>3, <1>4, FetchDetailFits, FetchDetailKeeps
<1> HIDE DEF asked
<1>7. QED BY <1>1, <1>2, <1>5, <1>6, KeepsTransitive, KeepsThenEffects

LEMMA MarkReads ==
    ASSUME Reading, MarkRead
    PROVE  ReadsSound(client', row')
<1> DEFINE c == [client EXCEPT !.entry = TRUE]
<1>1. saved \in Nat /\ client \in Clients(saved) /\ ReadsSound(client, row)
  BY ReadingTyped
<1>2. PICK status \in ReadStatus : client' = Effects(ChangeRead(c, status))
  BY DEF MarkRead, ReadStatus
<1>3. row' = row
  BY DEF MarkRead, Quietly, server
<1>4. /\ c \in Clients(saved)
      /\ c.intent = client.intent /\ c.writes = client.writes
      /\ c.thread = client.thread /\ c.homes = client.homes
      /\ c.pages = client.pages /\ c.details = client.details
      /\ c.retry = client.retry /\ c.save = client.save
  BY <1>1 DEF Clients
<1> HIDE DEF c
<1>5. ReadsSound(c, row)
  BY <1>1, <1>4, AsideKeeps, KeptSound
<1>6. ChangeRead(c, status) \in Clients(saved) /\ ReadsSound(ChangeRead(c, status), row)
  BY <1>1, <1>4, <1>5, ChangeReadFits, ChangeReadSound
<1>7. QED BY <1>1, <1>2, <1>3, <1>6, EffectsSound

LEMMA ReconcileReads ==
    ASSUME Reading, Reconcile
    PROVE  ReadsSound(client', row')
<1> DEFINE status == client.intent.status
<1>1. saved \in Nat /\ client \in Clients(saved) /\ ReadsSound(client, row)
  BY ReadingTyped
<1>2. /\ client' = Effects(ChangeRead(client, status)) /\ row' = row
      /\ client.intent.pending
  BY DEF Reconcile, Unsettled, server
<1>3. client.intent \in Intents
  BY <1>1, ClientParts
<1>4. status \in ReadStatus
  BY <1>2, <1>3 DEF Intents, NoIntent
<1> HIDE DEF status
<1>5. /\ ChangeRead(client, status) \in Clients(saved)
      /\ ReadsSound(ChangeRead(client, status), row)
  BY <1>1, <1>4, ChangeReadFits, ChangeReadSound
<1>6. QED BY <1>1, <1>2, <1>5, EffectsSound

(* A function of the hook that chooses nothing, after what is put aside.   *)
Aside(c, d) ==
    /\ d.intent = c.intent /\ d.writes = c.writes /\ d.thread = c.thread
    /\ d.homes = c.homes /\ d.pages = c.pages /\ d.details = c.details
    /\ d.retry.item = c.retry.item /\ d.save.item = c.save.item

LEMMA AsideThenKeeps ==
    ASSUME Reading, row' = row, NEW c, Aside(client, c), Keeps(c, client')
    PROVE  ReadsSound(client', row')
<1>1. Keeps(client, c)
  BY AsideKeeps DEF Aside
<1>2. QED BY <1>1, KeepsTransitive, KeptSound, ReadingTyped

LEMMA ListReads ==
    ASSUME Reading,
           \/ TimerFires \/ PullHome \/ ShowScreen \/ ChangeQuery
           \/ PullArchive \/ PullMore
    PROVE  ReadsSound(client', row')
<1>1. saved \in Nat /\ client \in Clients(saved)
  BY ReadingTyped
<1>2. row' = row
  BY DEF TimerFires, PullHome, ShowScreen, ChangeQuery, PullArchive, PullMore,
         Quietly, server
<1>3. Aside(client, client)
  BY DEF Aside
<1>4. CASE TimerFires
  <2> DEFINE c == [client EXCEPT !.timer = FALSE]
  <2>1. c \in Clients(saved) /\ Aside(client, c)
    BY <1>1 DEF Clients, Aside
  <2>2. client' = RefreshArchive(c)
    BY <1>4 DEF TimerFires
  <2> HIDE DEF c
  <2>3. QED BY <1>1, <1>2, <2>1, <2>2, RefreshArchiveKeeps, AsideThenKeeps
<1>5. CASE PullHome
  <2>1. client' = RefreshHome(client)
    BY <1>5 DEF PullHome
  <2>2. QED BY <1>1, <1>2, <1>3, <2>1, RefreshHomeKeeps, AsideThenKeeps
<1>6. CASE ShowScreen
  <2>1. PICK screen \in {"home", "archive"} :
           client' = ResetArchive([client EXCEPT !.screen = screen])
    BY <1>6 DEF ShowScreen
  <2> DEFINE c == [client EXCEPT !.screen = screen]
  <2>2. c \in Clients(saved) /\ Aside(client, c)
    BY <1>1 DEF Clients, Aside
  <2>3. client' = ResetArchive(c)
    BY <2>1
  <2> HIDE DEF c
  <2>4. QED BY <1>1, <1>2, <2>2, <2>3, ResetArchiveKeeps, AsideThenKeeps
<1>7. CASE ChangeQuery
  <2>1. PICK query \in Queries :
           client' = ResetArchive([client EXCEPT !.query = query])
    BY <1>7 DEF ChangeQuery
  <2> DEFINE c == [client EXCEPT !.query = query]
  <2>2. c \in Clients(saved) /\ Aside(client, c)
    BY <1>1 DEF Clients, Aside, Filters
  <2>3. client' = ResetArchive(c)
    BY <2>1
  <2> HIDE DEF c
  <2>4. QED BY <1>1, <1>2, <2>2, <2>3, ResetArchiveKeeps, AsideThenKeeps
<1>8. CASE PullArchive
  <2>1. client' = RefreshArchive(client)
    BY <1>8 DEF PullArchive
  <2>2. QED BY <1>1, <1>2, <1>3, <2>1, RefreshArchiveKeeps, AsideThenKeeps
<1>9. CASE PullMore
  <2>1. client' = LoadMore(client)
    BY <1>9 DEF PullMore
  <2>2. QED BY <1>1, <1>2, <1>3, <2>1, LoadMoreKeeps, AsideThenKeeps
<1>10. QED BY <1>4, <1>5, <1>6, <1>7, <1>8, <1>9

LEMMA AskReads ==
    ASSUME Reading,
           \/ Poll \/ Return \/ CloseFocus \/ RetrySummary \/ ChooseDensity
           \/ ReloadDetail \/ RemoveFocus \/ SaveUrl \/ Leave
    PROVE  ReadsSound(client', row')
<1>1. saved \in Nat /\ client \in Clients(saved)
  BY ReadingTyped
<1>2. row' = row
  BY DEF Poll, Return, CloseFocus, RetrySummary, ChooseDensity, ReloadDetail,
         RemoveFocus, SaveUrl, Leave, Quietly, server
<1>3. Aside(client, client)
  BY DEF Aside
<1>4. CASE Poll
  <2>1. \/ client' = FetchDetail(client, FALSE, {"poll"})
        \/ client' = [client EXCEPT !.status.on = "sent"]
    BY <1>4 DEF Poll
  <2>2. CASE client' = FetchDetail(client, FALSE, {"poll"})
    BY <1>1, <1>2, <1>3, <2>2, FetchDetailKeeps, AsideThenKeeps
  <2>3. CASE client' = [client EXCEPT !.status.on = "sent"]
    <3>1. Aside(client, client')
      BY <1>1, <2>3 DEF Clients, Aside
    <3>2. QED BY <1>2, <3>1, KeepsReflexive, AsideThenKeeps
  <2>4. QED BY <2>1, <2>2, <2>3
<1>5. CASE Return
  <2>1. client' = Resume(client)
    BY <1>5 DEF Return
  <2>2. QED BY <1>1, <1>2, <1>3, <2>1, ResumeKeeps, AsideThenKeeps
<1>6. CASE CloseFocus
  <2>1. client' = Close(client)
    BY <1>6 DEF CloseFocus
  <2>2. QED BY <1>1, <1>2, <1>3, <2>1, CloseKeeps, AsideThenKeeps
<1>7. CASE RetrySummary
  <2> DEFINE r == [client.retry EXCEPT !.on = "sent"]
             key == IF client.retryKey = None THEN "unknown" ELSE client.retryKey
  <2>1. client' = [client EXCEPT !.retry = r, !.retryKey = key]
    BY <1>7 DEF RetrySummary, Retry
  <2>2. client.retry \in Requests
    BY <1>1, ClientParts
  <2>3. r.item = client.retry.item
    BY <2>2 DEF Requests
  <2> HIDE DEF r, key
  <2>4. Aside(client, client')
    BY <1>1, <2>1, <2>3 DEF Clients, Aside
  <2>5. QED BY <1>2, <2>4, KeepsReflexive, AsideThenKeeps
<1>8. CASE ChooseDensity
  <2> DEFINE c == [client EXCEPT !.densityError = FALSE]
  <2>1. client' = SelectDensity(client) \/ client' = RequestVariant(c)
    BY <1>8 DEF ChooseDensity
  <2>2. c \in Clients(saved) /\ Aside(client, c)
    BY <1>1 DEF Clients, Aside
  <2> HIDE DEF c
  <2>3. QED BY <1>1, <1>2, <1>3, <2>1, <2>2, SelectDensityKeeps,
               RequestVariantKeeps, AsideThenKeeps
<1>9. CASE ReloadDetail
  <2>1. client' = FetchDetail(client, TRUE, {})
    BY <1>9 DEF ReloadDetail
  <2>2. QED BY <1>1, <1>2, <1>3, <2>1, FetchDetailKeeps, AsideThenKeeps
<1>10. CASE RemoveFocus
  <2>1. Aside(client, client')
    BY <1>1, <1>10 DEF RemoveFocus, Clients, Aside
  <2>2. QED BY <1>2, <2>1, KeepsReflexive, AsideThenKeeps
<1>11. CASE SaveUrl
  <2> DEFINE s == [client.save EXCEPT !.on = "sent"]
  <2>1. client' = [client EXCEPT !.save = s]
    BY <1>11 DEF SaveUrl
  <2>2. client.save \in Saves(saved)
    BY <1>1, ClientParts
  <2>3. s.item = client.save.item
    BY <2>2 DEF Saves
  <2> HIDE DEF s
  <2>4. Aside(client, client')
    BY <1>1, <2>1, <2>3 DEF Clients, Aside
  <2>5. QED BY <1>2, <2>4, KeepsReflexive, AsideThenKeeps
<1>12. CASE Leave
  <2>1. client' = Abort(client)
    BY <1>12 DEF Leave
  <2>2. QED BY <1>1, <1>2, <1>3, <2>1, AbortKeeps, AsideThenKeeps
<1>13. QED BY <1>4, <1>5, <1>6, <1>7, <1>8, <1>9, <1>10, <1>11, <1>12

-----------------------------------------------------------------------------
(* The invariant holds while the owner's article is there, the app has not *)
(* seen it removed, and no write it gave up has been served after another. *)
Watching ==
    client.account = owner /\ Exists /\ ~client.removed /\ ~seen.late

ReadsOrdered == Watching => ReadsSound(client, row)

(* A session that begins, whatever went before.                            *)
LEMMA SessionReads ==
    ASSUME LibraryTyped, ReadsOrdered, Watching',
           Logout \/ Login \/ Restart \/ RestoreSession \/ Reconnect
    PROVE  ReadsSound(client', row')
<1> DEFINE home == "home"
<1>1. /\ client.query \in Filters /\ client.screen \in {"home", "archive"}
      /\ session.token \in Users \cup {None} /\ home \in {"home", "archive"}
      /\ saved \in Nat /\ seen \in [mixed : BOOLEAN, late : BOOLEAN]
      /\ session.boot # "ready" => client.account = None
  BY ClientParts DEF LibraryTyped, Sessions
<1>2. client'.account = owner /\ owner \in Users /\ owner # None
  BY LibraryAssumption, UsersAssumption DEF Watching
<1>3. CASE Logout \/ Restart
  <2> DEFINE all == "all"
             u == None
  <2>1. client' = Begin(u, home, client.query) \/ client' = Begin(u, home, all)
    BY <1>3 DEF Logout, StartSession, Restart
  <2>2. u \in Users \cup {None} /\ home \in {"home", "archive"}
    OBVIOUS
  <2>3. all \in Filters /\ u = None
    BY DEF Filters
  <2> HIDE DEF home, all, u
  <2>4. PICK query \in Filters : client' = Begin(u, home, query)
    BY <1>1, <2>1, <2>3
  <2>5. Begin(u, home, query).account = u
    BY <2>2, 0 \in Nat, BeginFits
  <2>6. QED BY <1>2, <2>3, <2>4, <2>5
<1>4. CASE Login
  <2>1. PICK u \in Users : client' = Begin(u, home, client.query)
    BY <1>4 DEF Login, StartSession
  <2> HIDE DEF home
  <2>2. QED BY <1>1, <2>1, BeginFits, EmptyReads
<1>5. CASE RestoreSession
  <2>1. CASE client' = Begin(session.token, client.screen, client.query)
    BY <1>1, <2>1, BeginFits, EmptyReads
  <2>2. CASE UNCHANGED client
    BY <1>1, <1>2, <1>5, <2>2 DEF RestoreSession
  <2>3. QED BY <1>5, <2>1, <2>2 DEF RestoreSession
<1>6. CASE Reconnect
  BY <1>1, <1>2, <1>6 DEF Reconnect
<1>7. QED BY <1>3, <1>4, <1>5, <1>6

(* A step within a session.                                                *)
LEMMA WithinReads ==
    ASSUME Reading, Exists, ~seen'.late, Next,
           ~(Logout \/ Login \/ Restart \/ RestoreSession \/ Reconnect)
    PROVE  ReadsSound(client', row')
<1>1. CASE Serve
  BY <1>1, ServeHomeReads, ServePageReads, ServeDetailReads, ServeReadReads,
     ServeRetryReads, ServeSaveReads, ServeStrayReads, ServerReads DEF Serve
<1>2. CASE Hear
  BY <1>2, HearHomeReads, HearPageReads, HearDetailReads, HearStatusReads,
     HearReadReads, HearRetryReads, HearVariantReads, HearSaveReads,
     HearRemovalReads DEF Hear
<1>3. CASE Lose
  BY <1>3, LoseReads
<1>4. CASE User
  BY <1>4, OpenReads, MarkReads, ListReads, AskReads DEF User
<1>5. CASE TimerFires \/ Poll \/ Reconcile \/ Return
  BY <1>5, ListReads, AskReads, ReconcileReads
<1>6. CASE (\E phase \in {"done", "failed"} : Summarize(phase)) \/ FinishVariant
  BY <1>6, ServerReads
<1>7. QED BY <1>1, <1>2, <1>3, <1>4, <1>5, <1>6 DEF Next

(* What a step finds when it leaves the app watching.                      *)
LEMMA WatchedBefore ==
    ASSUME LibraryTyped, Outcome, Watching', ~Begun(client, client')
    PROVE  Watching
<1>1. client'.account = client.account /\ (client.removed => client'.removed)
  BY DEF Outcome, Heard, Served
<1>2. Exists' => Exists
  BY DEF Outcome, Exists
<1>3. QED BY <1>1, <1>2 DEF Watching, Outcome

(* Only what begins a session may find another account.                    *)
LEMMA ReadsStep ==
    ASSUME LibraryInvariant, ReadsOrdered, Next
    PROVE  ReadsOrdered'
<1> SUFFICES ASSUME Watching' PROVE ReadsSound(client', row')
  BY DEF ReadsOrdered
<1> DEFINE Starts == Logout \/ Login \/ Restart \/ RestoreSession \/ Reconnect
<1>1. LibraryTyped /\ AnswersOrdered /\ Outcome
  BY EveryStep DEF LibraryInvariant
<1>2. CASE Starts
  BY <1>1, <1>2, SessionReads
<1>3. CASE ~Starts
  <2>1. CASE Begun(client, client')
    BY <2>1, EmptyReads DEF Begun
  <2>2. CASE ~Begun(client, client')
    <3>1. Watching /\ ~seen'.late
      BY <1>1, <2>2, WatchedBefore DEF Watching
    <3>2. Reading /\ Exists
      BY <1>1, <3>1 DEF Reading, ReadsOrdered, Watching
    <3>3. QED BY <1>3, <3>1, <3>2, WithinReads
  <2>3. QED BY <2>1, <2>2
<1>4. QED BY <1>2, <1>3

LEMMA InitReads ==
    ASSUME Init
    PROVE  ReadsOrdered
<1> DEFINE home == "home"
           all == "all"
           u == owner
<1>1. client = Begin(u, home, all)
  BY DEF Init
<1>2. u \in Users \cup {None} /\ home \in {"home", "archive"} /\ all \in Filters
  BY LibraryAssumption DEF Filters
<1> HIDE DEF home, all, u
<1>3. QED BY <1>1, <1>2, 0 \in Nat, BeginFits, EmptyReads DEF ReadsOrdered

(* Together with LibraryInvariant, of whose history of the row it makes    *)
(* use, ReadsOrdered is inductive: the app and the database agree on the   *)
(* read status, up to the choice that is on its way to the server.         *)
THEOREM LibraryReadsOrdered == Spec => []ReadsOrdered
<1>1. Init => ReadsOrdered
  BY InitReads
<1>2. LibraryInvariant /\ ReadsOrdered /\ [Next]_vars => ReadsOrdered'
  BY ReadsStep DEF vars, ReadsOrdered, Watching, Exists
<1>3. QED BY <1>1, <1>2, LibraryOrdered, PTL DEF Spec

(* However taps, the automatic mark, lists, details and failed writes of a *)
(* read status overtake one another, when all is answered the app shows    *)
(* what the database has, unless a write it had given up was served all    *)
(* the same.                                                               *)
THEOREM ReadsSettle == Spec => []ReadFlagSettles
<1>1. ReadsOrdered => ReadFlagSettles
  <2> SUFFICES ASSUME ReadsOrdered, AtRest, ~seen.late
               PROVE  client.thread.read = row.read
    BY DEF ReadFlagSettles
  <2>1. Watching /\ Known(client.thread)
    BY DEF Watching, AtRest
  <2>2. ReadsAgree(client, row)
    BY <2>1 DEF ReadsOrdered, ReadsSound
  <2>3. ~client.intent.pending
    <3>1. client.account = owner /\ owner # None
      BY LibraryAssumption, UsersAssumption DEF AtRest
    <3>2. QED BY <3>1 DEF AtRest, Unsettled
  <2>4. QED BY <2>1, <2>2, <2>3 DEF ReadsAgree
<1>2. QED BY <1>1, LibraryReadsOrdered, PTL

-----------------------------------------------------------------------------
(* The archive.  P are the rows that are there, n how many were saved.     *)

(* Where a page begins that may still be added to the archive: the next    *)
(* one, and those asked for.                                               *)
Asked(c) == {p \in c.pages : p.fresh /\ p.more}
Places(c) == {c.cursor.row} \cup {p.cursor.row : p \in Asked(c)}

(* Focus may come into the filter of the unread at any time.               *)
Wanted(P, query) == {r \in P : query = "all" \/ r # Focus}

(* From any of the places upwards nothing is left out.                     *)
Filled(c, P) ==
    \A k \in Places(c), r \in Wanted(P, c.query) :
        r >= k /\ (\E u \in Range(c.archive) \cup Places(c) : r <= u)
            => r \in Range(c.archive)

Placed(k, n) == k = NoCursor \/ k.row \in 1 .. n

(* A page has all there was below its cursor, or below its first row, down *)
(* to where the next one begins.                                           *)
Reaches(p, r) ==
    /\ r >= p.next.row
    /\ IF p.cursor = NoCursor THEN \E u \in Range(p.rows) : r <= u
       ELSE r < p.cursor.row

PageFilled(p, P) ==
    /\ \A r \in Wanted(P, p.query) : Reaches(p, r) => r \in Range(p.rows)
    /\ p.cursor # NoCursor => \A u \in Range(p.rows) : u < p.cursor.row
    /\ p.next # NoCursor => p.next.row \in Range(p.rows)

PageSound(c, p, P, n) ==
    /\ Placed(p.cursor, n) /\ (p.cursor = NoCursor <=> ~p.more)
    /\ p.fresh => p.query = c.query
    /\ p.on = "ok" => PageFilled(p, P)
    /\ p.on = "refused" => p.more

(* The app takes the article for removed, or is about to.                  *)
Gone(c) ==
    \/ c.removed \/ c.removal.on = "ok" \/ c.status.on = "missing"
    \/ \E d \in c.details : d.on = "missing"

ArchiveSound(c, P, n, mixed) ==
    /\ Focus \in P => ~Gone(c)
    /\ Placed(c.cursor, n)
    /\ \A p \in c.pages : PageSound(c, p, P, n)
    /\ ~mixed => Filled(c, P)

(* A step of the hook that hears no page: its pages were there before,     *)
(* perhaps out of date by now, or are asked for at the cursor; and its     *)
(* archive has lost nothing but an article that is gone.                   *)
SamePage(p, q) ==
    /\ (p.fresh => q.fresh) /\ p.more = q.more /\ p.query = q.query
    /\ p.cursor = q.cursor /\ p.on = q.on /\ p.rows = q.rows /\ p.next = q.next

Begins(c, p) ==
    /\ p.on = "sent" /\ p.query = c.query
    /\ p.more => p.cursor = c.cursor /\ c.cursor # NoCursor
    /\ ~p.more => p.cursor = NoCursor

ListsKept(c, d) ==
    /\ d.query = c.query /\ d.cursor = c.cursor
    /\ \/ Range(d.archive) = Range(c.archive)
       \/ Gone(c) /\ Range(d.archive) = Range(c.archive) \ {Focus}
    /\ \A p \in d.pages : (\E q \in c.pages : SamePage(p, q)) \/ Begins(c, p)

Shelf(c, d) == ListsKept(c, d) /\ (Gone(d) => Gone(c))

LEMMA ShelfTransitive ==
    ASSUME NEW b, NEW c, NEW d, Shelf(b, c), Shelf(c, d)
    PROVE  Shelf(b, d)
<1>1. ASSUME NEW p \in d.pages
      PROVE  (\E q \in b.pages : SamePage(p, q)) \/ Begins(b, p)
  <2>1. CASE Begins(c, p)
    BY <2>1 DEF Begins, Shelf, ListsKept
  <2>2. CASE ~Begins(c, p)
    <3>1. PICK q \in c.pages : SamePage(p, q)
      BY <2>2 DEF Shelf, ListsKept
    <3>2. CASE Begins(b, q)
      BY <3>1, <3>2 DEF Begins, SamePage
    <3>3. CASE ~Begins(b, q)
      <4>1. PICK r \in b.pages : SamePage(q, r)
        BY <3>3 DEF Shelf, ListsKept
      <4>2. SamePage(p, r)
        BY <3>1, <4>1 DEF SamePage
      <4>3. QED BY <4>2
    <3>4. QED BY <3>2, <3>3
  <2>3. QED BY <2>1, <2>2
<1>2. QED BY <1>1 DEF Shelf, ListsKept

LEMMA ShelfReflexive ==
    ASSUME NEW c
    PROVE  Shelf(c, c)
  BY DEF Shelf, ListsKept, SamePage

(* Rows come on top of all others.                                         *)
Topped(P, n, Q, m) ==
    /\ n \in Nat /\ m \in Nat /\ n <= m
    /\ Q \subseteq 1 .. m
    /\ \A r \in Q : r \in P \/ r > n
    /\ Focus \in Q => Focus \in P

LEMMA PagesTopped ==
    ASSUME NEW P, NEW n, NEW Q, NEW m, Topped(P, n, Q, m),
           NEW c, NEW d, NEW p \in PageRequests(n), NEW q,
           d.query = c.query, SamePage(q, p), PageSound(c, p, P, n)
    PROVE  PageSound(d, q, Q, m)
<1>1. /\ n \in Nat /\ m \in Nat /\ n <= m /\ p.rows \in Lists(n)
      /\ Q \subseteq Nat /\ \A r \in Q : r \in P \/ r > n
  BY DEF Topped, PageRequests
<1>2. Range(p.rows) \subseteq 1 .. n
  BY <1>1, ListParts
<1>3. Placed(q.cursor, m)
  BY <1>1 DEF PageSound, Placed, SamePage
<1>4. ASSUME p.on = "ok" PROVE PageFilled(q, Q)
  <2>1. PageFilled(p, P)
    BY <1>4 DEF PageSound
  <2>2. ASSUME NEW r \in Wanted(Q, q.query), Reaches(q, r) PROVE r \in Range(q.rows)
    <3>1. r \in Q /\ r \in Nat
      BY <1>1 DEF Wanted
    <3>2. Reaches(p, r) /\ q.query = p.query /\ q.rows = p.rows
      BY <2>2 DEF Reaches, SamePage
    <3>3. ~(r > n)
      <4>1. CASE p.cursor = NoCursor
        <5>1. PICK u \in Range(p.rows) : r <= u
          BY <3>2, <4>1 DEF Reaches
        <5>2. QED BY <1>1, <1>2, <3>1, <5>1
      <4>2. CASE p.cursor # NoCursor
        <5>1. p.cursor.row \in 1 .. n /\ r < p.cursor.row
          BY <3>2, <4>2 DEF Reaches, PageSound, Placed
        <5>2. QED BY <1>1, <3>1, <5>1
      <4>3. QED BY <4>1, <4>2
    <3>4. r \in Wanted(P, p.query)
      BY <1>1, <2>2, <3>1, <3>2, <3>3 DEF Wanted
    <3>5. QED BY <2>1, <3>2, <3>4 DEF PageFilled
  <2>3. QED BY <2>1, <2>2 DEF PageFilled, SamePage
<1>5. QED BY <1>3, <1>4 DEF PageSound, SamePage

LEMMA FilledTopped ==
    ASSUME NEW P, NEW n, NEW Q, NEW m, Topped(P, n, Q, m),
           NEW c \in Clients(n), NEW d, ListsKept(c, d), Focus \in P => ~Gone(c),
           Places(d) \subseteq Places(c), Places(c) \subseteq 0 .. n, Filled(c, P)
    PROVE  Filled(d, Q)
<1>1. /\ n \in Nat /\ Q \subseteq Nat /\ \A r \in Q : r \in P \/ r > n
      /\ Focus \in Q => Focus \in P
  BY DEF Topped
<1>2. Range(c.archive) \subseteq 1 .. n
  BY <1>1, ClientParts, ListParts
<1>3. /\ d.query = c.query /\ Range(d.archive) \subseteq Range(c.archive)
      /\ \A r \in Q : r \in Range(c.archive) => r \in Range(d.archive)
  BY <1>1 DEF ListsKept
<1> SUFFICES ASSUME NEW k \in Places(d), NEW r \in Wanted(Q, d.query), r >= k,
                    NEW u \in Range(d.archive) \cup Places(d), r <= u
             PROVE  r \in Range(d.archive)
  BY DEF Filled
<1>4. r \in Nat /\ u \in 0 .. n /\ r \in Q
  BY <1>1, <1>2, <1>3 DEF Wanted
<1>5. r \in Wanted(P, c.query)
  BY <1>1, <1>3, <1>4 DEF Wanted
<1>6. r \in Range(c.archive)
  BY <1>3, <1>5 DEF Filled
<1>7. QED BY <1>3, <1>4, <1>6

LEMMA PlacesSame ==
    ASSUME NEW c, NEW d, ListsKept(c, d)
    PROVE  Places(d) \subseteq Places(c)
<1>1. ASSUME NEW p \in Asked(d) PROVE p.cursor.row \in Places(c)
  <2>1. p \in d.pages /\ p.fresh /\ p.more
    BY DEF Asked
  <2>2. CASE Begins(c, p)
    BY <2>1, <2>2 DEF Begins, Places
  <2>3. CASE ~Begins(c, p)
    <3>1. PICK q \in c.pages : SamePage(p, q)
      BY <2>1, <2>3 DEF ListsKept
    <3>2. q \in Asked(c) /\ q.cursor = p.cursor
      BY <2>1, <3>1 DEF Asked, SamePage
    <3>3. QED BY <3>2 DEF Places
  <2>4. QED BY <2>2, <2>3
<1>2. QED BY <1>1 DEF Places, ListsKept

LEMMA PlacesSaved ==
    ASSUME NEW c, NEW P, NEW n \in Nat, Placed(c.cursor, n),
           \A p \in c.pages : PageSound(c, p, P, n)
    PROVE  Places(c) \subseteq 0 .. n
<1>1. \A k : Placed(k, n) => k.row \in 0 .. n
  BY DEF Placed, NoCursor
<1>2. \A p \in Asked(c) : p.cursor.row \in 0 .. n
  BY <1>1 DEF PageSound, Asked
<1>3. QED BY <1>1, <1>2 DEF Places

(* The frame of the steps that hear no page.                               *)
LEMMA ShelfSound ==
    ASSUME NEW P, NEW n, NEW Q, NEW m, Topped(P, n, Q, m),
           NEW c \in Clients(n), NEW d, ListsKept(c, d),
           Gone(d) => Gone(c) \/ Focus \notin Q,
           NEW mixed, NEW mixt, mixed => mixt, ArchiveSound(c, P, n, mixed)
    PROVE  ArchiveSound(d, Q, m, mixt)
<1>1. n \in Nat /\ m \in Nat /\ n <= m /\ (Focus \in Q => Focus \in P)
  BY DEF Topped
<1>2. Focus \in Q => ~Gone(d)
  BY <1>1 DEF ArchiveSound
<1>3. Placed(c.cursor, n) /\ Placed(d.cursor, m) /\ d.query = c.query
  BY <1>1 DEF ArchiveSound, Placed, ListsKept
<1>4. ASSUME NEW q \in d.pages PROVE PageSound(d, q, Q, m)
  <2>1. CASE Begins(c, q)
    BY <1>1, <1>3, <2>1 DEF Begins, PageSound, Placed
  <2>2. CASE ~Begins(c, q)
    <3>1. PICK p \in c.pages : SamePage(q, p)
      BY <2>2 DEF ListsKept
    <3>2. p \in PageRequests(n) /\ PageSound(c, p, P, n)
      BY <1>1, ClientParts DEF ArchiveSound
    <3>3. QED BY <1>3, <3>1, <3>2, PagesTopped
  <2>3. QED BY <2>1, <2>2
<1>5. ASSUME ~mixt PROVE Filled(d, Q)
  <2>1. Places(d) \subseteq Places(c) /\ Places(c) \subseteq 0 .. n
    BY <1>1, PlacesSame, PlacesSaved DEF ArchiveSound
  <2>2. Filled(c, P) /\ (Focus \in P => ~Gone(c))
    BY <1>5 DEF ArchiveSound
  <2>3. QED BY <2>1, <2>2, FilledTopped
<1>6. QED BY <1>2, <1>3, <1>4, <1>5 DEF ArchiveSound

-----------------------------------------------------------------------------
(* The functions of the hook that leave the shelf alone.                   *)

LEMMA AsideShelf ==
    ASSUME NEW c, NEW d,
           d.query = c.query, d.archive = c.archive, d.cursor = c.cursor,
           d.removed = c.removed, d.removal.on = "ok" => c.removal.on = "ok",
           d.status.on = "missing" => c.status.on = "missing",
           \A p \in d.pages : p \in c.pages, \A x \in d.details : x \in c.details
    PROVE  Shelf(c, d)
  BY DEF Shelf, ListsKept, Gone, SamePage

LEMMA ReceiveShelf ==
    ASSUME NEW n \in Nat, NEW c \in Clients(n), NEW item, NEW same
    PROVE  Shelf(c, Receive(c, item, same))
<1> DEFINE d == Receive(c, item, same)
<1>1. /\ d.query = c.query /\ d.archive = c.archive /\ d.cursor = c.cursor
      /\ d.removed = c.removed /\ d.removal = c.removal /\ d.status = c.status
      /\ d.pages = c.pages /\ d.details = c.details
  BY DEF Receive, Clients
<1> HIDE DEF d
<1>2. Shelf(c, d)
  BY <1>1, AsideShelf
<1>3. QED BY <1>2 DEF d

LEMMA DetailsShelf ==
    ASSUME NEW n \in Nat, NEW c \in Clients(n), NEW ds,
           \A x \in ds : x.on = "missing" => \E y \in c.details : y.on = "missing"
    PROVE  Shelf(c, [c EXCEPT !.details = ds])
<1> DEFINE d == [c EXCEPT !.details = ds]
<1>1. /\ d.query = c.query /\ d.archive = c.archive /\ d.cursor = c.cursor
      /\ d.removed = c.removed /\ d.removal = c.removal /\ d.status = c.status
      /\ d.pages = c.pages /\ d.details = ds
  BY DEF Clients
<1> HIDE DEF d
<1>2. Shelf(c, d)
  BY <1>1 DEF Shelf, ListsKept, Gone, SamePage
<1>3. QED BY <1>2 DEF d

LEMMA FetchDetailShelf ==
    ASSUME NEW n \in Nat, NEW c \in Clients(n), NEW force, NEW waits
    PROVE  Shelf(c, FetchDetail(c, force, waits))
<1> DEFINE mapped == {d \in c.details : d.mapped}
           joined == {[d EXCEPT !.waits = @ \cup waits] : d \in mapped}
           unmapped == {[d EXCEPT !.mapped = FALSE] : d \in c.details}
           new == [mapped |-> TRUE, waits |-> waits, same |-> TRUE,
                   on |-> "sent", item |-> NoThread]
           both == (c.details \ mapped) \cup joined
           more == unmapped \cup {new}
<1>1. ASSUME NEW d \in c.details
      PROVE  /\ [d EXCEPT !.waits = @ \cup waits].on = d.on
             /\ [d EXCEPT !.mapped = FALSE].on = d.on
  <2>1. d \in DetailRequests
    BY ClientParts
  <2>2. QED BY <2>1 DEF DetailRequests
<1>2. \A x \in both : x.on = "missing" => \E y \in c.details : y.on = "missing"
  <2>1. \A x \in joined : \E d \in c.details : x.on = d.on
    BY <1>1
  <2> HIDE DEF joined
  <2>2. QED BY <2>1
<1>3. new.on = "sent"
  OBVIOUS
<1> HIDE DEF new
<1>4. \A x \in more : x.on = "missing" => \E y \in c.details : y.on = "missing"
  <2>1. \A x \in unmapped : \E d \in c.details : x.on = d.on
    BY <1>1
  <2> HIDE DEF unmapped
  <2>2. QED BY <1>3, <2>1
<1>5. FetchDetail(c, force, waits) \in {c, [c EXCEPT !.details = both],
                                        [c EXCEPT !.details = more]}
  BY DEF FetchDetail, new
<1> HIDE DEF both, more
<1>6. QED BY <1>2, <1>4, <1>5, DetailsShelf, ShelfReflexive

LEMMA BumpReadShelf ==
    ASSUME NEW n \in Nat, NEW c \in Clients(n)
    PROVE  Shelf(c, BumpRead(c))
<1> DEFINE ps == {[p EXCEPT !.same = FALSE] : p \in c.pages}
           ds == {[d EXCEPT !.same = FALSE] : d \in c.details}
           b == BumpRead(c)
<1>1. ASSUME NEW x \in ps PROVE \E p \in c.pages : SamePage(x, p)
  <2>1. PICK p \in c.pages : x = [p EXCEPT !.same = FALSE]
    OBVIOUS
  <2>2. p \in PageRequests(n)
    BY ClientParts
  <2>3. QED BY <2>1, <2>2 DEF PageRequests, SamePage
<1>2. ASSUME NEW x \in ds, x.on = "missing" PROVE \E y \in c.details : y.on = "missing"
  <2>1. PICK y \in c.details : x = [y EXCEPT !.same = FALSE]
    OBVIOUS
  <2>2. y \in DetailRequests
    BY ClientParts
  <2>3. QED BY <1>2, <2>1, <2>2 DEF DetailRequests
<1>3. /\ b.query = c.query /\ b.archive = c.archive /\ b.cursor = c.cursor
      /\ b.removed = c.removed /\ b.removal = c.removal /\ b.status = c.status
      /\ b.pages = ps /\ b.details = ds
  BY DEF BumpRead, Clients
<1> HIDE DEF ps, ds, b
<1>4. Shelf(c, b)
  BY <1>1, <1>2, <1>3 DEF Shelf, ListsKept, Gone
<1>5. QED BY <1>4 DEF b

LEMMA StartWriteShelf ==
    ASSUME NEW n \in Nat, NEW c \in Clients(n)
    PROVE  Shelf(c, StartWrite(c))
<1> DEFINE d == StartWrite(c)
<1>1. /\ d.query = c.query /\ d.archive = c.archive /\ d.cursor = c.cursor
      /\ d.removed = c.removed /\ d.removal = c.removal /\ d.status = c.status
      /\ d.pages = c.pages /\ d.details = c.details
  BY DEF StartWrite, Clients
<1> HIDE DEF d
<1>2. Shelf(c, d)
  BY <1>1, AsideShelf
<1>3. QED BY <1>2 DEF d

LEMMA RefreshHomeShelf ==
    ASSUME NEW n \in Nat, NEW c \in Clients(n)
    PROVE  Shelf(c, RefreshHome(c))
<1> DEFINE d == RefreshHome(c)
<1>1. /\ d.query = c.query /\ d.archive = c.archive /\ d.cursor = c.cursor
      /\ d.removed = c.removed /\ d.removal = c.removal /\ d.status = c.status
      /\ d.pages = c.pages /\ d.details = c.details
  BY DEF RefreshHome, Clients
<1> HIDE DEF d
<1>2. Shelf(c, d)
  BY <1>1, AsideShelf
<1>3. QED BY <1>2 DEF d

LEMMA AbortShelf ==
    ASSUME NEW n \in Nat, NEW c \in Clients(n)
    PROVE  Shelf(c, Abort(c))
<1> DEFINE d == Abort(c)
<1>1. /\ d.query = c.query /\ d.archive = c.archive /\ d.cursor = c.cursor
      /\ d.removed = c.removed /\ d.removal = c.removal /\ d.status.on = "no"
      /\ d.pages = {} /\ d.details = {}
  BY DEF Abort, Clients, NoRequest
<1> HIDE DEF d
<1>2. Shelf(c, d)
  BY <1>1, AsideShelf
<1>3. QED BY <1>2 DEF d

LEMMA CloseShelf ==
    ASSUME NEW n \in Nat, NEW c \in Clients(n)
    PROVE  Shelf(c, Close(c))
<1> DEFINE ds == {[d EXCEPT !.waits = @ \ {"open"}] : d \in c.details}
           b == Close(c)
<1>1. ASSUME NEW x \in ds, x.on = "missing" PROVE \E y \in c.details : y.on = "missing"
  <2>1. PICK y \in c.details : x = [y EXCEPT !.waits = @ \ {"open"}]
    OBVIOUS
  <2>2. y \in DetailRequests
    BY ClientParts
  <2>3. QED BY <1>1, <2>1, <2>2 DEF DetailRequests
<1>2. /\ b.query = c.query /\ b.archive = c.archive /\ b.cursor = c.cursor
      /\ b.removed = c.removed /\ b.removal = c.removal /\ b.status = c.status
      /\ b.pages = c.pages /\ b.details = ds
  BY DEF Close, Clients
<1> HIDE DEF ds, b
<1>3. Shelf(c, b)
  BY <1>1, <1>2 DEF Shelf, ListsKept, Gone, SamePage
<1>4. QED BY <1>3 DEF b

LEMMA RequestVariantShelf ==
    ASSUME NEW n \in Nat, NEW c \in Clients(n)
    PROVE  Shelf(c, RequestVariant(c))
<1> DEFINE b == [c EXCEPT !.variant.on = "sent", !.densityError = FALSE]
<1>1. RequestVariant(c) \in {c, b}
  BY DEF RequestVariant
<1>2. /\ b.query = c.query /\ b.archive = c.archive /\ b.cursor = c.cursor
      /\ b.removed = c.removed /\ b.removal = c.removal /\ b.status = c.status
      /\ b.pages = c.pages /\ b.details = c.details
  BY DEF Clients
<1> HIDE DEF b
<1>3. Shelf(c, b)
  BY <1>2, AsideShelf
<1>4. QED BY <1>1, <1>3, ShelfReflexive

LEMMA SelectDensityShelf ==
    ASSUME NEW n \in Nat, NEW c \in Clients(n)
    PROVE  Shelf(c, SelectDensity(c))
<1> DEFINE b == [c EXCEPT !.density = TRUE, !.densityError = FALSE]
<1>1. b \in Clients(n)
  BY DEF Clients
<1>2. /\ b.query = c.query /\ b.archive = c.archive /\ b.cursor = c.cursor
      /\ b.removed = c.removed /\ b.removal = c.removal /\ b.status = c.status
      /\ b.pages = c.pages /\ b.details = c.details
  BY DEF Clients
<1>3. SelectDensity(c) \in {b, RequestVariant(b)}
  BY DEF SelectDensity
<1> HIDE DEF b
<1>4. Shelf(c, b)
  BY <1>2, AsideShelf
<1>5. QED BY <1>1, <1>3, <1>4, RequestVariantShelf, ShelfTransitive

LEMMA ChangeReadShelf ==
    ASSUME NEW n \in Nat, NEW c \in Clients(n), NEW status \in ReadStatus
    PROVE  Shelf(c, ChangeRead(c, status))
<1> DEFINE b == BumpRead(c)
           i == [status |-> status, pending |-> TRUE]
           t == [b.thread EXCEPT !.read = IF Known(c.thread) THEN status ELSE @]
           ws == Append([j \in DOMAIN b.writes |-> [b.writes[j] EXCEPT !.last = FALSE]],
                        [status |-> status, last |-> TRUE, on |-> "queued",
                         item |-> NoThread])
           e == [b EXCEPT !.intent = i, !.thread = t, !.writes = ws]
           d == StartWrite(e)
<1>1. b \in Clients(n) /\ Shelf(c, b)
  BY BumpReadFits, BumpReadShelf
<1>2. ChangeRead(c, status) \in {c, d}
  BY DEF ChangeRead
<1> HIDE DEF b, i, t, ws
<1>3. /\ d.query = b.query /\ d.archive = b.archive /\ d.cursor = b.cursor
      /\ d.removed = b.removed /\ d.removal = b.removal /\ d.status = b.status
      /\ d.pages = b.pages /\ d.details = b.details
  BY <1>1 DEF StartWrite, Clients
<1> HIDE DEF d
<1>4. Shelf(b, d)
  BY <1>3, AsideShelf
<1>5. QED BY <1>1, <1>2, <1>4, ShelfTransitive, ShelfReflexive

LEMMA EffectsShelf ==
    ASSUME NEW n \in Nat, NEW c \in Clients(n)
    PROVE  Shelf(c, Effects(c))
<1> DEFINE s == [c EXCEPT !.entry = TRUE]
           a == AutoRead(c)
<1>1. s \in Clients(n) /\ Shelf(c, s)
  <2>1. s \in Clients(n)
    BY DEF Clients
  <2>2. /\ s.query = c.query /\ s.archive = c.archive /\ s.cursor = c.cursor
        /\ s.removed = c.removed /\ s.removal = c.removal /\ s.status = c.status
        /\ s.pages = c.pages /\ s.details = c.details
    BY DEF Clients
  <2> HIDE DEF s
  <2>3. QED BY <2>1, <2>2, AsideShelf
<1>2. /\ ChangeRead(s, "READ") \in Clients(n)
      /\ Shelf(s, ChangeRead(s, "READ"))
  BY <1>1, ChangeReadFits, ChangeReadShelf DEF ReadStatus
<1>3. a \in {c, s, ChangeRead(s, "READ")}
  BY DEF AutoRead
<1>4. Shelf(c, ChangeRead(s, "READ"))
  BY <1>1, <1>2, ShelfTransitive
<1>5. a \in Clients(n) /\ Shelf(c, a)
  BY <1>1, <1>2, <1>3, <1>4, ShelfReflexive
<1> HIDE DEF a
<1>6. Shelf(c, FetchDetail(a, FALSE, {}))
  BY <1>5, FetchDetailShelf, ShelfTransitive
<1>7. Effects(c) \in {a, FetchDetail(a, FALSE, {})}
  BY DEF Effects, FetchStale, a
<1>8. QED BY <1>5, <1>6, <1>7

LEMMA OpenShelf ==
    ASSUME NEW n \in Nat, NEW c \in Clients(n)
    PROVE  Shelf(c, Open(c))
<1> DEFINE visit == [c EXCEPT !.open = TRUE, !.entry = FALSE, !.detailError = FALSE,
                              !.density = FALSE, !.densityError = FALSE]
           waits == IF c.thread.loaded THEN {} ELSE {"open"}
           asked == FetchDetail(visit, FALSE, waits)
<1>1. visit \in Clients(n)
  BY DEF Clients
<1>2. /\ visit.query = c.query /\ visit.archive = c.archive /\ visit.cursor = c.cursor
      /\ visit.removed = c.removed /\ visit.removal = c.removal
      /\ visit.status = c.status /\ visit.pages = c.pages /\ visit.details = c.details
  BY DEF Clients
<1>3. Open(c) = Effects(asked)
  BY DEF Open
<1> HIDE DEF visit
<1>4. Shelf(c, visit)
  BY <1>2, AsideShelf
<1>5. waits \subseteq Waits
  BY DEF Waits
<1> HIDE DEF waits
<1>6. asked \in Clients(n) /\ Shelf(visit, asked)
  BY <1>1, <1>5, FetchDetailFits, FetchDetailShelf
<1> HIDE DEF asked
<1>7. Shelf(asked, Effects(asked))
  BY <1>6, EffectsShelf
<1>8. QED BY <1>3, <1>4, <1>6, <1>7, ShelfTransitive

(* Those that ask for pages.                                               *)
LEMMA RefreshArchiveShelf ==
    ASSUME NEW n \in Nat, NEW c \in Clients(n)
    PROVE  Shelf(c, RefreshArchive(c))
<1> DEFINE old == {[p EXCEPT !.fresh = FALSE] : p \in c.pages}
           new == PageRequest(c, FALSE)
           ps == old \cup {new}
           b == [c EXCEPT !.archiveError = FALSE, !.pages = ps]
<1>1. ASSUME NEW x \in old PROVE \E p \in c.pages : SamePage(x, p)
  <2>1. PICK p \in c.pages : x = [p EXCEPT !.fresh = FALSE]
    OBVIOUS
  <2>2. p \in PageRequests(n)
    BY ClientParts
  <2>3. QED BY <2>1, <2>2 DEF PageRequests, SamePage
<1>2. Begins(c, new)
  BY DEF PageRequest, Begins
<1>3. RefreshArchive(c) \in {c, b}
  BY DEF RefreshArchive
<1>4. /\ b.query = c.query /\ b.archive = c.archive /\ b.cursor = c.cursor
      /\ b.removed = c.removed /\ b.removal = c.removal /\ b.status = c.status
      /\ b.pages = ps /\ b.details = c.details
  BY DEF Clients
<1> HIDE DEF old, new, b
<1>5. Shelf(c, b)
  BY <1>1, <1>2, <1>4 DEF Shelf, ListsKept, Gone
<1>6. QED BY <1>3, <1>5, ShelfReflexive

LEMMA LoadMoreShelf ==
    ASSUME NEW n \in Nat, NEW c \in Clients(n), c.cursor # NoCursor
    PROVE  Shelf(c, LoadMore(c))
<1> DEFINE new == PageRequest(c, TRUE)
           b == LoadMore(c)
<1>1. Begins(c, new)
  BY DEF PageRequest, Begins
<1>2. /\ b.query = c.query /\ b.archive = c.archive /\ b.cursor = c.cursor
      /\ b.removed = c.removed /\ b.removal = c.removal /\ b.status = c.status
      /\ b.pages = c.pages \cup {new} /\ b.details = c.details
  BY DEF LoadMore, Clients
<1> HIDE DEF new, b
<1>3. Shelf(c, b)
  BY <1>1, <1>2 DEF Shelf, ListsKept, Gone, SamePage
<1>4. QED BY <1>3 DEF b

LEMMA ResumeShelf ==
    ASSUME NEW n \in Nat, NEW c \in Clients(n)
    PROVE  Shelf(c, Resume(c))
<1> DEFINE home == RefreshHome(c)
           lists == IF c.screen = "archive" THEN RefreshArchive(home) ELSE home
           shown == [lists EXCEPT !.active = TRUE]
<1>1. home \in Clients(n) /\ Shelf(c, home)
  BY RefreshHomeFits, RefreshHomeShelf DEF ListStep
<1>2. Resume(c) \in {shown, FetchDetail(shown, FALSE, {})}
  BY DEF Resume
<1> HIDE DEF home
<1>3. RefreshArchive(home) \in Clients(n) /\ Shelf(home, RefreshArchive(home))
  BY <1>1, RefreshArchiveFits, RefreshArchiveShelf DEF ListStep
<1>4. lists \in Clients(n) /\ Shelf(c, lists)
  BY <1>1, <1>3, ShelfTransitive
<1> HIDE DEF lists
<1>5. shown \in Clients(n)
  BY <1>4 DEF Clients
<1>6. /\ shown.query = lists.query /\ shown.archive = lists.archive
      /\ shown.cursor = lists.cursor /\ shown.removed = lists.removed
      /\ shown.removal = lists.removal /\ shown.status = lists.status
      /\ shown.pages = lists.pages /\ shown.details = lists.details
  BY <1>4 DEF Clients
<1> HIDE DEF shown
<1>7. Shelf(c, shown)
  BY <1>4, <1>6, AsideShelf, ShelfTransitive
<1>8. Shelf(c, FetchDetail(shown, FALSE, {}))
  BY <1>5, <1>7, FetchDetailShelf, ShelfTransitive
<1>9. QED BY <1>2, <1>7, <1>8

-----------------------------------------------------------------------------
(* The steps that leave the shelf alone.                                   *)
Shelving ==
    /\ LibraryTyped /\ ArchiveSound(client, present, saved, seen.mixed)
    /\ client.account = owner

ShelvingNext == ArchiveSound(client', present', saved', seen'.mixed)

LEMMA RowsKept ==
    ASSUME LibraryTyped, saved' = saved, present' \subseteq present
    PROVE  Topped(present, saved, present', saved')
<1>1. saved \in Nat /\ present \subseteq 1 .. saved
  BY DEF LibraryTyped
<1>2. present' \subseteq 1 .. saved' /\ saved' \in Nat /\ saved <= saved'
  BY <1>1
<1>3. QED BY <1>1, <1>2 DEF Topped

LEMMA RowsAdded ==
    ASSUME LibraryTyped, AddRow
    PROVE  Topped(present, saved, present', saved')
<1>1. /\ saved \in Nat /\ present \subseteq 1 .. saved /\ Focus <= saved
      /\ saved' = saved + 1 /\ present' = present \cup {saved + 1}
  BY DEF LibraryTyped, AddRow
<1>2. Focus \in Nat
  BY FocusAssumption
<1>3. QED BY <1>1, <1>2 DEF Topped

LEMMA ListsStep ==
    ASSUME Shelving, ListsKept(client, client'),
           Gone(client') => Gone(client) \/ Focus \notin present',
           \/ saved' = saved /\ present' \subseteq present
           \/ AddRow,
           seen'.mixed = seen.mixed
    PROVE  ShelvingNext
<1>1. LibraryTyped /\ client \in Clients(saved)
  BY DEF Shelving, LibraryTyped
<1>2. Topped(present, saved, present', saved')
  BY <1>1, RowsKept, RowsAdded
<1>3. QED BY <1>1, <1>2, ShelfSound DEF Shelving, ShelvingNext

LEMMA ShelfStep ==
    ASSUME Shelving, Shelf(client, client'),
           \/ saved' = saved /\ present' \subseteq present
           \/ AddRow,
           seen'.mixed = seen.mixed
    PROVE  ShelvingNext
  BY ListsStep DEF Shelf

(* The shelf and what is seen stay as they are.                            *)
LEMMA AsideStep ==
    ASSUME Shelving,
           client'.query = client.query, client'.archive = client.archive,
           client'.cursor = client.cursor, client'.removed = client.removed,
           client'.removal.on = "ok" => client.removal.on = "ok",
           client'.status.on = "missing" => client.status.on = "missing",
           client'.pages \subseteq client.pages,
           client'.details \subseteq client.details,
           \/ saved' = saved /\ present' \subseteq present
           \/ AddRow,
           seen'.mixed = seen.mixed
    PROVE  ShelvingNext
  BY AsideShelf, ShelfStep

LEMMA ServerShelf ==
    ASSUME Shelving,
           \/ \E phase \in {"done", "failed"} : Summarize(phase)
           \/ FinishVariant \/ ServeHome \/ ServeRead \/ ServeRetry
           \/ ServeVariant \/ ServeSave
    PROVE  ShelvingNext
<1>1. client \in Clients(saved)
  BY DEF Shelving, LibraryTyped
<1>2. seen' = seen /\ ((saved' = saved /\ present' = present) \/ AddRow)
  BY DEF Summarize, FinishVariant, ServeHome, ServeRead, ServeRetry, ServeVariant,
         ServeSave, server
<1>3. /\ client'.query = client.query /\ client'.archive = client.archive
      /\ client'.cursor = client.cursor /\ client'.removed = client.removed
      /\ client'.removal = client.removal /\ client'.status = client.status
      /\ client'.pages = client.pages /\ client'.details = client.details
  <2>1. CASE (\E phase \in {"done", "failed"} : Summarize(phase)) \/ FinishVariant
    BY <2>1 DEF Summarize, FinishVariant
  <2>2. CASE ServeHome
    BY <1>1, <2>2 DEF ServeHome, Clients
  <2>3. CASE ServeRead
    BY <1>1, <2>3 DEF ServeRead, Clients
  <2>4. CASE ServeRetry
    BY <1>1, <2>4 DEF ServeRetry, Clients
  <2>5. CASE ServeVariant
    BY <1>1, <2>5 DEF ServeVariant, Clients
  <2>6. CASE ServeSave
    BY <1>1, <2>6 DEF ServeSave, Clients
  <2>7. QED BY <2>1, <2>2, <2>3, <2>4, <2>5, <2>6
<1>4. QED BY <1>2, <1>3, AsideStep

LEMMA ServeStrayShelf ==
    ASSUME Shelving, ServeStray
    PROVE  ShelvingNext
<1>1. client \in Clients(saved) /\ seen \in [mixed : BOOLEAN, late : BOOLEAN]
  BY DEF Shelving, LibraryTyped
<1>2. PICK s \in strays :
        /\ CASE s = "removal" ->
                  present' = present \ {Focus} /\ UNCHANGED <<row, saved>>
             [] s = "save" -> AddRow /\ UNCHANGED row
             [] s = "retry" -> /\ StartsGeneration(client.retryKey)
                               /\ StartGeneration
                               /\ UNCHANGED <<present, saved>>
             [] s = "variant" -> /\ Exists /\ row.res # 0
                                 /\ MakeVariant
                                 /\ UNCHANGED <<present, saved>>
             [] OTHER -> /\ Exists
                         /\ WriteRead(s)
                         /\ UNCHANGED <<present, saved>>
        /\ client' = IF s = "retry" /\ client.retryKey = "unknown"
                     THEN [client EXCEPT !.retryKey = "known"] ELSE client
        /\ seen' = [seen EXCEPT !.late = @ \/ s \in ReadStatus \cup {"retry"}]
  BY DEF ServeStray
<1>3. (saved' = saved /\ present' \subseteq present) \/ AddRow
  BY <1>2
<1>4. seen'.mixed = seen.mixed
  BY <1>1, <1>2
<1>5. /\ client'.query = client.query /\ client'.archive = client.archive
      /\ client'.cursor = client.cursor /\ client'.removed = client.removed
      /\ client'.removal = client.removal /\ client'.status = client.status
      /\ client'.pages = client.pages /\ client'.details = client.details
  BY <1>1, <1>2 DEF Clients
<1>6. QED BY <1>3, <1>4, <1>5, AsideStep

LEMMA LoseShelf ==
    ASSUME Shelving, Lose
    PROVE  ShelvingNext
<1>1. client \in Clients(saved)
  BY DEF Shelving, LibraryTyped
<1>2. seen' = seen /\ saved' = saved /\ present' = present
  BY DEF Lose, LoseHome, LosePage, LoseDetail, LoseStatus, LoseRead, LoseRetry,
         LoseVariant, LoseSave, LoseRemoval, server
<1>3. /\ client'.query = client.query /\ client'.archive = client.archive
      /\ client'.cursor = client.cursor /\ client'.removed = client.removed
      /\ (client'.removal.on = "ok" => client.removal.on = "ok")
      /\ (client'.status.on = "missing" => client.status.on = "missing")
      /\ client'.pages \subseteq client.pages
      /\ client'.details \subseteq client.details
  <2>1. CASE LoseHome
    BY <1>1, <2>1 DEF LoseHome, Clients
  <2>2. CASE LosePage
    BY <1>1, <2>2 DEF LosePage, Clients
  <2>3. CASE LoseDetail
    BY <1>1, <2>3 DEF LoseDetail, Clients
  <2>4. CASE LoseStatus
    BY <1>1, <2>4 DEF LoseStatus, Clients, NoRequest
  <2>5. CASE LoseRead
    BY <1>1, <2>5 DEF LoseRead, StartWrite, Clients
  <2>6. CASE LoseRetry \/ LoseVariant \/ LoseSave
    <3> DEFINE err == client.open /\ client.density
    <3>1. client' \in {[client EXCEPT !.retry = NoRequest],
                       [client EXCEPT !.variant = NoRequest, !.densityError = err],
                       [client EXCEPT !.save = NoSave]}
      BY <2>6 DEF LoseRetry, LoseVariant, LoseSave
    <3> HIDE DEF err
    <3>2. QED BY <1>1, <3>1 DEF Clients
  <2>7. CASE LoseRemoval
    BY <1>1, <2>7 DEF LoseRemoval, Clients, NoRequest
  <2>8. QED BY <2>1, <2>2, <2>3, <2>4, <2>5, <2>6, <2>7 DEF Lose
<1>4. QED BY <1>2, <1>3, AsideStep

(* What the user and the timers ask for beside the lists.                  *)
LEMMA AskShelf ==
    ASSUME Shelving,
           \/ Poll \/ OpenFocus \/ CloseFocus \/ RetrySummary \/ ChooseDensity
           \/ ReloadDetail \/ RemoveFocus \/ SaveUrl \/ PullHome \/ Leave
    PROVE  ShelvingNext
<1>1. client \in Clients(saved) /\ saved \in Nat
  BY DEF Shelving, LibraryTyped
<1>2. seen' = seen /\ saved' = saved /\ present' = present
  BY DEF Poll, OpenFocus, CloseFocus, RetrySummary, ChooseDensity, ReloadDetail,
         RemoveFocus, SaveUrl, PullHome, Leave, Quietly, server
<1>3. Shelf(client, client')
  <2>1. CASE Poll
    <3>1. CASE client' = FetchDetail(client, FALSE, {"poll"})
      BY <1>1, <3>1, FetchDetailShelf
    <3>2. CASE client' = [client EXCEPT !.status.on = "sent"]
      <4>1. /\ client'.query = client.query /\ client'.archive = client.archive
            /\ client'.cursor = client.cursor /\ client'.removed = client.removed
            /\ client'.removal = client.removal /\ client'.status.on = "sent"
            /\ client'.pages = client.pages /\ client'.details = client.details
        <5>1. client.status \in Requests
          BY <1>1, ClientParts
        <5>2. QED BY <1>1, <3>2, <5>1 DEF Clients, Requests
      <4>2. QED BY <4>1, AsideShelf
    <3>3. QED BY <2>1, <3>1, <3>2 DEF Poll
  <2>2. CASE OpenFocus
    BY <1>1, <2>2, OpenShelf DEF OpenFocus
  <2>3. CASE CloseFocus
    BY <1>1, <2>3, CloseShelf DEF CloseFocus
  <2>4. CASE RetrySummary \/ RemoveFocus \/ SaveUrl
    <3>1. /\ client'.query = client.query /\ client'.archive = client.archive
          /\ client'.cursor = client.cursor /\ client'.removed = client.removed
          /\ (client'.removal.on = "ok" => client.removal.on = "ok")
          /\ client'.status = client.status
          /\ client'.pages = client.pages /\ client'.details = client.details
      <4>1. client.removal \in Requests
        BY <1>1, ClientParts
      <4>2. CASE RetrySummary
        BY <1>1, <4>2 DEF RetrySummary, Retry, Clients
      <4>3. CASE RemoveFocus
        BY <1>1, <4>1, <4>3 DEF RemoveFocus, Clients, Requests
      <4>4. CASE SaveUrl
        BY <1>1, <4>4 DEF SaveUrl, Clients
      <4>5. QED BY <2>4, <4>2, <4>3, <4>4
    <3>2. QED BY <3>1, AsideShelf
  <2>5. CASE ChooseDensity
    <3> DEFINE d == [client EXCEPT !.densityError = FALSE]
    <3>1. /\ d.query = client.query /\ d.archive = client.archive
          /\ d.cursor = client.cursor /\ d.removed = client.removed
          /\ d.removal = client.removal /\ d.status = client.status
          /\ d.pages = client.pages /\ d.details = client.details
      BY <1>1 DEF Clients
    <3>2. d \in Clients(saved)
      BY <1>1 DEF Clients
    <3>3. client' \in {SelectDensity(client), RequestVariant(d)}
      BY <2>5 DEF ChooseDensity
    <3> HIDE DEF d
    <3>4. Shelf(client, d)
      BY <3>1, AsideShelf
    <3>5. Shelf(client, RequestVariant(d))
      BY <1>1, <3>2, <3>4, RequestVariantShelf, ShelfTransitive
    <3>6. QED BY <1>1, <3>3, <3>5, SelectDensityShelf
  <2>6. CASE ReloadDetail
    BY <1>1, <2>6, FetchDetailShelf DEF ReloadDetail
  <2>7. CASE PullHome
    BY <1>1, <2>7, RefreshHomeShelf DEF PullHome
  <2>8. CASE Leave
    BY <1>1, <2>8, AbortShelf DEF Leave
  <2>9. QED BY <2>1, <2>2, <2>3, <2>4, <2>5, <2>6, <2>7, <2>8
<1>4. QED BY <1>2, <1>3, ShelfStep

LEMMA ChooseShelf ==
    ASSUME Shelving, MarkRead \/ Reconcile
    PROVE  ShelvingNext
<1>1. client \in Clients(saved) /\ saved \in Nat /\ client.intent \in Intents
  BY ClientParts DEF Shelving, LibraryTyped
<1>2. seen' = seen /\ saved' = saved /\ present' = present
  BY DEF MarkRead, Reconcile, Quietly, server
<1> DEFINE e == [client EXCEPT !.entry = TRUE]
<1>3. e \in Clients(saved) /\ Shelf(client, e)
  <2>1. e \in Clients(saved)
    BY <1>1 DEF Clients
  <2>2. /\ e.query = client.query /\ e.archive = client.archive
        /\ e.cursor = client.cursor /\ e.removed = client.removed
        /\ e.removal = client.removal /\ e.status = client.status
        /\ e.pages = client.pages /\ e.details = client.details
    BY <1>1 DEF Clients
  <2> HIDE DEF e
  <2>3. QED BY <2>1, <2>2, AsideShelf
<1>4. PICK c \in {client, e}, status \in ReadStatus :
         client' = Effects(ChangeRead(c, status))
  <2>1. CASE MarkRead
    BY <2>1 DEF MarkRead, ReadStatus
  <2>2. CASE Reconcile
    <3>1. client.intent.status \in ReadStatus
      BY <1>1, <2>2 DEF Reconcile, Unsettled, Intents, NoIntent
    <3>2. QED BY <2>2, <3>1 DEF Reconcile
  <2>3. QED BY <2>1, <2>2
<1> HIDE DEF e
<1>5. c \in Clients(saved) /\ Shelf(client, c)
  BY <1>1, <1>3, ShelfReflexive
<1> DEFINE chosen == ChangeRead(c, status)
<1>6. chosen \in Clients(saved) /\ Shelf(client, chosen)
  BY <1>1, <1>5, ChangeReadFits, ChangeReadShelf, ShelfTransitive
<1> HIDE DEF chosen
<1>7. Shelf(client, Effects(chosen))
  BY <1>1, <1>6, EffectsShelf, ShelfTransitive
<1>8. QED BY <1>2, <1>4, <1>7, ShelfStep DEF chosen

-----------------------------------------------------------------------------
(* The server's part in the archive.                                       *)

(* A page has what is wanted of its query below its cursor, down to where  *)
(* the next one begins.                                                    *)
LEMMA PageHolds ==
    ASSUME LibraryTyped, NEW query, NEW cursor
    PROVE  LET rows == Page(owner, query, cursor)
               next == NextCursor(owner, query, cursor)
           IN  /\ \A r \in Wanted(present, query) :
                     r >= next.row /\ (cursor.row # 0 => r < cursor.row)
                       => r \in Range(rows)
               /\ cursor.row # 0 => \A u \in Range(rows) : u < cursor.row
               /\ next # NoCursor => next.row \in Range(rows)
<1> DEFINE S == {r \in OwnRows(owner) : /\ Matches(r, query)
                                        /\ cursor.row # 0 => r < cursor.row}
           f == Newest(S)
           k == IF Len(f) < PageSize THEN Len(f) ELSE PageSize
           p == SubSeq(f, 1, k)
           next == NextCursor(owner, query, cursor)
<1>1. saved \in Nat /\ present \subseteq 1 .. saved /\ PageSize \in Nat \ {0}
  BY LibraryAssumption DEF LibraryTyped
<1>2. S \subseteq 1 .. saved /\ S \subseteq Nat /\ IsFiniteSet(S)
  <2>1. S \subseteq 1 .. saved
    BY <1>1 DEF OwnRows
  <2>2. IsFiniteSet(1 .. saved) /\ 1 .. saved \subseteq Nat
    BY <1>1, FS_Interval
  <2>3. QED BY <2>1, <2>2, FS_Subset, S \in SUBSET (1 .. saved)
<1>3. /\ \A r \in Wanted(present, query) : (cursor.row # 0 => r < cursor.row) => r \in S
      /\ \A r \in S : cursor.row # 0 => r < cursor.row
  BY DEF OwnRows, Wanted, Matches
<1>4. p = Page(owner, query, cursor)
  BY DEF Page, Found
<1>5. next = IF Len(f) > PageSize THEN [row |-> p[PageSize], query |-> query]
             ELSE NoCursor
  BY <1>4 DEF NextCursor, Found
<1>6. /\ f \in Seq(S) /\ Len(f) = Cardinality(S)
      /\ \A i, j \in 1 .. Cardinality(S) : i < j => f[i] > f[j]
      /\ \A r \in S : \E i \in 1 .. Cardinality(S) : f[i] = r
  BY <1>2, NewestFirst
<1> HIDE DEF S, f, next
<1>7. Len(f) \in Nat /\ k \in Nat /\ k <= Len(f)
  BY <1>1, <1>6
<1>8. p = [i \in 1 .. k |-> f[i]]
  BY <1>6, <1>7
<1>9. \A i \in 1 .. Len(f) : f[i] \in S /\ f[i] \in Nat
  <2>1. \A i \in 1 .. Len(f) : f[i] \in S
    BY <1>6, ElementOfSeq
  <2>2. QED BY <1>2, <2>1
<1>10. Len(f) > PageSize => k = PageSize
  BY <1>1, <1>7
<1>11. Len(f) <= PageSize => k = Len(f)
  BY <1>1, <1>7
<1> HIDE DEF k, p
<1>12. Range(p) = {f[i] : i \in 1 .. k}
  BY <1>8 DEF Range
<1>13. next # NoCursor => /\ Len(f) > PageSize /\ k = PageSize /\ k \in 1 .. k
                          /\ next.row = f[k]
  <2>1. ASSUME Len(f) > PageSize
        PROVE  k = PageSize /\ k \in 1 .. k /\ next.row = f[k]
    <3>1. k = PageSize /\ k \in 1 .. k
      BY <1>1, <1>7, <1>10, <2>1
    <3>2. next.row = p[k]
      BY <1>5, <2>1, <3>1
    <3>3. QED BY <1>8, <3>1, <3>2
  <2>2. next # NoCursor => Len(f) > PageSize
    BY <1>5
  <2>3. QED BY <2>1, <2>2
<1>14. next = NoCursor => Len(f) <= PageSize \/ next.row = f[k]
  <2>1. ASSUME Len(f) > PageSize PROVE next.row = f[k]
    <3>1. k = PageSize /\ k \in 1 .. k
      BY <1>1, <1>7, <1>10, <2>1
    <3>2. next.row = p[k]
      BY <1>5, <2>1, <3>1
    <3>3. QED BY <1>8, <3>1, <3>2
  <2>2. Len(f) <= PageSize \/ Len(f) > PageSize
    BY <1>1, <1>7
  <2>3. QED BY <2>1, <2>2
<1>15. ASSUME NEW r \in Wanted(present, query), r >= next.row,
              cursor.row # 0 => r < cursor.row
       PROVE  r \in Range(p)
  <2>1. r \in S
    BY <1>3, <1>15
  <2>2. PICK i \in 1 .. Len(f) : f[i] = r
    BY <1>6, <2>1
  <2>3. CASE i <= k
    <3>1. i \in 1 .. k
      BY <1>7, <2>3
    <3>2. QED BY <1>12, <2>2, <3>1
  <2>4. CASE i > k
    <3>1. ~(Len(f) <= PageSize)
      BY <1>7, <1>11, <2>4
    <3>2. next.row = f[k]
      BY <1>13, <1>14, <3>1
    <3>3. k \in 1 .. Len(f)
      BY <1>1, <1>7, <1>10, <3>1
    <3>4. f[k] > f[i]
      BY <1>6, <2>4, <3>3
    <3>5. f[k] \in Nat /\ f[i] \in Nat
      BY <1>9, <3>3
    <3>6. QED BY <1>15, <2>2, <3>2, <3>4, <3>5
  <2>5. QED BY <1>7, <2>3, <2>4
<1>16. \A u \in Range(p) : cursor.row # 0 => u < cursor.row
  <2>1. \A i \in 1 .. k : f[i] \in S
    BY <1>7, <1>9
  <2>2. QED BY <1>3, <1>12, <2>1
<1>17. next # NoCursor => next.row \in Range(p)
  BY <1>12, <1>13
<1>18. QED BY <1>4, <1>15, <1>16, <1>17 DEF next

(* A page is served.                                                       *)
LEMMA ServePageShelf ==
    ASSUME Shelving, ServePage
    PROVE  ShelvingNext
<1>1. PICK p \in client.pages :
         LET rows == Page(client.account, p.query, p.cursor)
             answer == IF p.cursor # NoCursor /\ p.cursor.query # p.query
                       THEN [p EXCEPT !.on = "refused"]
                       ELSE [p EXCEPT !.on = "ok", !.rows = rows,
                                      !.item = ItemIn(rows),
                                      !.next = NextCursor(client.account, p.query,
                                                          p.cursor)]
         IN  /\ client' = [client EXCEPT !.pages = (@ \ {p}) \cup {answer}]
             /\ UNCHANGED <<row, present, saved, session, strays, left, seen>>
  BY DEF ServePage, server
<1> DEFINE rows == Page(owner, p.query, p.cursor)
           item == ItemIn(rows)
           next == NextCursor(owner, p.query, p.cursor)
           refused == [p EXCEPT !.on = "refused"]
           given == [p EXCEPT !.on = "ok", !.rows = rows, !.item = item, !.next = next]
           g == IF p.cursor # NoCursor /\ p.cursor.query # p.query
                THEN refused ELSE given
           ps == (client.pages \ {p}) \cup {g}
<1>2. /\ saved \in Nat /\ client \in Clients(saved) /\ client.account = owner
      /\ LibraryTyped /\ ArchiveSound(client, present, saved, seen.mixed)
  BY DEF Shelving, LibraryTyped
<1>3. p \in PageRequests(saved) /\ PageSound(client, p, present, saved)
  BY <1>2, ClientParts DEF ArchiveSound
<1>4. client' = [client EXCEPT !.pages = ps]
  BY <1>1, <1>2
<1>5. /\ \A r \in Wanted(present, p.query) :
            r >= next.row /\ (p.cursor.row # 0 => r < p.cursor.row) => r \in Range(rows)
      /\ p.cursor.row # 0 => \A u \in Range(rows) : u < p.cursor.row
      /\ next # NoCursor => next.row \in Range(rows)
  BY <1>2, PageHolds
<1> HIDE DEF rows, item, next
<1>6. /\ given.fresh = p.fresh /\ given.more = p.more /\ given.query = p.query
      /\ given.cursor = p.cursor /\ given.on = "ok" /\ given.rows = rows
      /\ given.next = next
      /\ refused.fresh = p.fresh /\ refused.more = p.more /\ refused.query = p.query
      /\ refused.cursor = p.cursor /\ refused.on = "refused"
  BY <1>3 DEF PageRequests
<1> HIDE DEF given, refused
<1>7. /\ p.cursor = NoCursor => p.cursor.row = 0
      /\ p.cursor # NoCursor => p.cursor.row # 0
      /\ p.cursor = NoCursor <=> ~p.more
  <2>1. Placed(p.cursor, saved) /\ (p.cursor = NoCursor <=> ~p.more)
    BY <1>3 DEF PageSound
  <2>2. p.cursor # NoCursor => p.cursor.row \in 1 .. saved
    BY <2>1 DEF Placed
  <2>3. 0 \notin 1 .. saved
    BY <1>2
  <2>4. QED BY <2>1, <2>2, <2>3 DEF NoCursor
<1>8. PageFilled(given, present)
  <2>1. ASSUME NEW r \in Wanted(present, p.query), Reaches(given, r)
        PROVE  r \in Range(rows)
    BY <1>5, <1>6, <1>7, <2>1 DEF Reaches
  <2>2. QED BY <1>5, <1>6, <1>7, <2>1 DEF PageFilled
<1>9. PageSound(client, given, present, saved)
  BY <1>3, <1>6, <1>8 DEF PageSound
<1>10. p.cursor # NoCursor => PageSound(client, refused, present, saved)
  BY <1>3, <1>6, <1>7 DEF PageSound
<1>11. /\ PageSound(client, g, present, saved)
       /\ g.fresh = p.fresh /\ g.more = p.more /\ g.cursor = p.cursor
  BY <1>6, <1>9, <1>10
<1> HIDE DEF g
<1>12. /\ \A x \in ps : x \in client.pages \/ x = g
       /\ p \in client.pages
  OBVIOUS
<1> HIDE DEF ps
<1>13. /\ client'.query = client.query /\ client'.archive = client.archive
       /\ client'.cursor = client.cursor /\ client'.removed = client.removed
       /\ client'.removal = client.removal /\ client'.status = client.status
       /\ client'.pages = ps /\ client'.details = client.details
  BY <1>2, <1>4 DEF Clients
<1>14. Gone(client') = Gone(client) /\ Placed(client'.cursor, saved)
  BY <1>2, <1>13 DEF Gone, ArchiveSound
<1>15. \A x \in ps : PageSound(client', x, present, saved)
  <2>1. \A x \in ps : PageSound(client, x, present, saved)
    BY <1>2, <1>11, <1>12 DEF ArchiveSound
  <2>2. QED BY <1>13, <2>1 DEF PageSound
<1>16. ASSUME ~seen.mixed PROVE Filled(client', present)
  <2>1. Filled(client, present)
    BY <1>2, <1>16 DEF ArchiveSound
  <2>2. Places(client') \subseteq Places(client)
    <3>1. ASSUME NEW x \in Asked(client') PROVE x.cursor.row \in Places(client)
      BY <1>11, <1>12, <1>13 DEF Asked, Places
    <3>2. QED BY <1>13, <3>1 DEF Places
  <2>3. QED BY <1>13, <2>1, <2>2 DEF Filled
<1>17. saved' = saved /\ present' = present /\ seen' = seen
  BY <1>1
<1>18. ArchiveSound(client', present, saved, seen.mixed)
  BY <1>2, <1>13, <1>14, <1>15, <1>16 DEF ArchiveSound
<1>19. QED BY <1>17, <1>18 DEF ShelvingNext

(* The server says that the article is gone, or has removed it.            *)
LEMMA AsideLists ==
    ASSUME NEW c, NEW d,
           d.query = c.query, d.archive = c.archive, d.cursor = c.cursor,
           \A p \in d.pages : p \in c.pages
    PROVE  ListsKept(c, d)
  BY DEF ListsKept, SamePage

LEMMA GoneShelf ==
    ASSUME Shelving, ServeDetail \/ ServeStatus \/ ServeRemoval
    PROVE  ShelvingNext
<1>1. client \in Clients(saved) /\ saved \in Nat
  BY DEF Shelving, LibraryTyped
<1>2. saved' = saved /\ present' \subseteq present /\ seen' = seen
  BY DEF ServeDetail, ServeStatus, ServeRemoval, server
<1>3. /\ client'.query = client.query /\ client'.archive = client.archive
      /\ client'.cursor = client.cursor /\ client'.pages = client.pages
      /\ Gone(client') => Gone(client) \/ Focus \notin present'
  <2>1. CASE ServeDetail
    <3>1. PICK d \in client.details :
            client' = [client EXCEPT !.details = (@ \ {d}) \cup
                          {IF Exists
                           THEN [d EXCEPT !.on = "ok", !.item = DetailItem(row)]
                           ELSE [d EXCEPT !.on = "missing"]}]
      BY <2>1 DEF ServeDetail
    <3> DEFINE g == IF Exists THEN [d EXCEPT !.on = "ok", !.item = DetailItem(row)]
                    ELSE [d EXCEPT !.on = "missing"]
               ds == (client.details \ {d}) \cup {g}
    <3>2. Exists => g.on = "ok"
      <4>1. d \in DetailRequests
        BY <1>1, ClientParts
      <4>2. QED BY <4>1 DEF DetailRequests
    <3>3. client' = [client EXCEPT !.details = ds]
      BY <3>1
    <3> HIDE DEF g
    <3>4. \A x \in ds : x \in client.details \/ x = g
      OBVIOUS
    <3> HIDE DEF ds
    <3>5. /\ client'.query = client.query /\ client'.archive = client.archive
          /\ client'.cursor = client.cursor /\ client'.pages = client.pages
          /\ client'.removed = client.removed /\ client'.removal = client.removal
          /\ client'.status = client.status /\ client'.details = ds
      BY <1>1, <3>3 DEF Clients
    <3>6. present' = present
      BY <2>1 DEF ServeDetail, server
    <3>7. QED BY <3>2, <3>4, <3>5, <3>6 DEF Gone, Exists
  <2>2. CASE ServeStatus
    <3>1. client' = [client EXCEPT !.status =
                        IF Exists THEN [on |-> "ok", item |-> ListItem(row)]
                        ELSE [on |-> "missing", item |-> NoThread]]
      BY <2>2 DEF ServeStatus
    <3> DEFINE s == IF Exists THEN [on |-> "ok", item |-> ListItem(row)]
                    ELSE [on |-> "missing", item |-> NoThread]
    <3>2. Exists => s.on = "ok"
      OBVIOUS
    <3>3. client' = [client EXCEPT !.status = s]
      BY <3>1
    <3> HIDE DEF s
    <3>4. /\ client'.query = client.query /\ client'.archive = client.archive
          /\ client'.cursor = client.cursor /\ client'.pages = client.pages
          /\ client'.removed = client.removed /\ client'.removal = client.removal
          /\ client'.status = s /\ client'.details = client.details
      BY <1>1, <3>3 DEF Clients
    <3>5. present' = present
      BY <2>2 DEF ServeStatus, server
    <3>6. QED BY <3>2, <3>4, <3>5 DEF Gone, Exists
  <2>3. CASE ServeRemoval
    <3> DEFINE on == IF Exists THEN "ok" ELSE "missing"
    <3>1. client' = [client EXCEPT !.removal.on = on]
      BY <2>3 DEF ServeRemoval
    <3>2. Focus \notin present'
      BY <2>3 DEF ServeRemoval
    <3> HIDE DEF on
    <3>3. QED BY <1>1, <3>1, <3>2 DEF Clients
  <2>4. QED BY <2>1, <2>2, <2>3
<1>4. QED BY <1>2, <1>3, AsideLists, ListsStep

-----------------------------------------------------------------------------
(* The answers but for the archive's pages.                                *)

LEMMA ShelfHears ==
    ASSUME NEW n \in Nat, NEW c, NEW d \in Clients(n), Shelf(c, d),
           NEW i \in Threads, NEW same
    PROVE  Receive(d, i, same) \in Clients(n) /\ Shelf(c, Receive(d, i, same))
<1>1. Receive(d, i, same) \in Clients(n)
  BY ReceiveFits
<1>2. QED BY <1>1, ReceiveShelf, ShelfTransitive

LEMMA ShelfThenEffects ==
    ASSUME NEW n \in Nat, NEW c, NEW d \in Clients(n), Shelf(c, d)
    PROVE  Shelf(c, Effects(d))
  BY EffectsShelf, ShelfTransitive

LEMMA HearHomeShelf ==
    ASSUME Shelving, HearHome
    PROVE  ShelvingNext
<1>1. PICK h \in client.homes :
         /\ client' = HomeAnswer(h)
         /\ UNCHANGED <<server, session, strays, left, seen>>
  BY DEF HearHome
<1>2. saved \in Nat /\ client \in Clients(saved)
  BY DEF Shelving, LibraryTyped
<1> DEFINE hs == client.homes \ {h}
           rest == [client EXCEPT !.homes = hs]
           heard == Receive(rest, h.item, h.same)
           home == WithoutRemoved(heard, h.rows)
           d == [heard EXCEPT !.home = home]
<1>3. h \in HomeRequests(saved)
  BY <1>2, ClientParts
<1>4. h.item \in Threads /\ h.rows \in Lists(saved)
  BY <1>3 DEF HomeRequests
<1>5. hs \in SUBSET HomeRequests(saved)
  BY <1>2, ClientParts
<1> HIDE DEF hs
<1>6. rest \in Clients(saved)
  BY <1>2, <1>5 DEF Clients
<1>7. /\ rest.query = client.query /\ rest.archive = client.archive
      /\ rest.cursor = client.cursor /\ rest.removed = client.removed
      /\ rest.removal = client.removal /\ rest.status = client.status
      /\ rest.pages = client.pages /\ rest.details = client.details
  BY <1>2 DEF Clients
<1>8. client' \in {rest, Effects(d)}
  BY <1>1 DEF HomeAnswer, hs
<1> HIDE DEF rest
<1>9. Shelf(client, rest)
  BY <1>7, AsideShelf
<1>10. heard \in Clients(saved) /\ Shelf(client, heard)
  BY <1>2, <1>4, <1>6, <1>9, ShelfHears
<1> HIDE DEF heard
<1>11. home \in Lists(saved)
  BY <1>2, <1>4, WithoutRemovedFits
<1> HIDE DEF home
<1>12. /\ d \in Clients(saved)
       /\ d.query = heard.query /\ d.archive = heard.archive
       /\ d.cursor = heard.cursor /\ d.removed = heard.removed
       /\ d.removal = heard.removal /\ d.status = heard.status
       /\ d.pages = heard.pages /\ d.details = heard.details
  BY <1>10, <1>11 DEF Clients
<1> HIDE DEF d
<1>13. Shelf(client, d)
  BY <1>10, <1>12, AsideShelf, ShelfTransitive
<1>14. Shelf(client, client')
  BY <1>2, <1>8, <1>9, <1>12, <1>13, ShelfThenEffects
<1>15. QED BY <1>1, <1>14, ShelfStep DEF server

LEMMA HearDetailShelf ==
    ASSUME Shelving, HearDetail
    PROVE  ShelvingNext
<1>1. PICK d \in client.details :
         /\ client' = DetailAnswer(d)
         /\ UNCHANGED <<server, session, strays, left, seen>>
  BY DEF HearDetail
<1>2. saved \in Nat /\ client \in Clients(saved)
  BY DEF Shelving, LibraryTyped
<1> DEFINE ds == client.details \ {d}
           rest == [client EXCEPT !.details = ds]
           heard == Receive(rest, d.item, d.same)
           err == heard.detailError /\ ~client.open
           e == [heard EXCEPT !.detailError = err]
           gone == client.removed \/ d.on = "missing"
           bad == client.detailError \/ client.open
           lost == [rest EXCEPT !.removed = gone, !.detailError = bad]
<1>3. d \in DetailRequests
  BY <1>2, ClientParts
<1>4. d.item \in Threads
  BY <1>3 DEF DetailRequests
<1>5. ds \in SUBSET DetailRequests /\ ds \subseteq client.details
  BY <1>2, ClientParts
<1> HIDE DEF ds
<1>6. rest \in Clients(saved)
  BY <1>2, <1>5 DEF Clients
<1>7. /\ rest.query = client.query /\ rest.archive = client.archive
      /\ rest.cursor = client.cursor /\ rest.removed = client.removed
      /\ rest.removal = client.removal /\ rest.status = client.status
      /\ rest.pages = client.pages /\ rest.details = ds
  BY <1>2 DEF Clients
<1>8. client' \in {lost, Effects(e)}
  <2>1. rest.removed = client.removed /\ rest.detailError = client.detailError
    BY <1>2 DEF Clients
  <2>2. QED BY <1>1, <2>1 DEF DetailAnswer, ds
<1> HIDE DEF rest, bad
<1>9. Shelf(client, rest)
  BY <1>5, <1>7, AsideShelf
<1>10. /\ lost.query = rest.query /\ lost.archive = rest.archive
       /\ lost.cursor = rest.cursor /\ lost.removed = gone
       /\ lost.removal = rest.removal /\ lost.status = rest.status
       /\ lost.pages = rest.pages /\ lost.details = rest.details
  BY <1>6 DEF Clients
<1> HIDE DEF lost
<1>11. Shelf(client, lost)
  <2>1. ListsKept(client, lost)
    BY <1>7, <1>10, AsideLists
  <2>2. Gone(lost) => Gone(client)
    BY <1>1, <1>5, <1>7, <1>10 DEF Gone
  <2>3. QED BY <2>1, <2>2 DEF Shelf
<1>12. heard \in Clients(saved) /\ Shelf(client, heard)
  BY <1>2, <1>4, <1>6, <1>9, ShelfHears
<1>13. heard.detailError \in BOOLEAN /\ client.open \in BOOLEAN
  BY <1>2, <1>12, ClientParts
<1> HIDE DEF heard
<1>14. err \in BOOLEAN
  BY <1>13
<1> HIDE DEF err
<1>15. /\ e \in Clients(saved)
       /\ e.query = heard.query /\ e.archive = heard.archive
       /\ e.cursor = heard.cursor /\ e.removed = heard.removed
       /\ e.removal = heard.removal /\ e.status = heard.status
       /\ e.pages = heard.pages /\ e.details = heard.details
  <2>1. heard \in Clients(saved)
    BY <1>12
  <2>2. QED BY <1>14, <2>1 DEF Clients
<1> HIDE DEF e
<1>16. Shelf(client, e)
  BY <1>12, <1>15, AsideShelf, ShelfTransitive
<1>17. Shelf(client, client')
  BY <1>2, <1>8, <1>11, <1>15, <1>16, ShelfThenEffects
<1>18. QED BY <1>1, <1>17, ShelfStep DEF server

LEMMA HearStatusShelf ==
    ASSUME Shelving, HearStatus
    PROVE  ShelvingNext
<1>1. /\ client.status.on \in {"ok", "missing"} /\ client' = StatusAnswer
      /\ UNCHANGED <<server, session, strays, left, seen>>
  BY DEF HearStatus
<1>2. saved \in Nat /\ client \in Clients(saved)
  BY DEF Shelving, LibraryTyped
<1> DEFINE rest == [client EXCEPT !.status = NoRequest]
           item == client.status.item
           merged == Merge(client.thread, StatusItem(client.thread, item))
           told == [rest EXCEPT !.thread = merged]
           gone == [rest EXCEPT !.removed = TRUE]
           asked == FetchDetail(told, FALSE, {"poll"})
<1>3. merged \in Threads
  <2>1. client.status \in Requests /\ client.thread \in Threads
    BY <1>2, ClientParts
  <2>2. item \in Threads
    BY <2>1 DEF Requests
  <2>3. QED BY <2>1, <2>2, MergeTyped
<1>4. \/ client' = rest
      \/ client.status.on = "missing" /\ client' = gone
      \/ client' \in {Effects(told), Effects(asked)}
  BY <1>1 DEF StatusAnswer
<1> HIDE DEF item, merged
<1>5. told \in Clients(saved)
  BY <1>2, <1>3, ItemDefaults DEF Clients
<1>6. /\ rest.query = client.query /\ rest.archive = client.archive
      /\ rest.cursor = client.cursor /\ rest.removed = client.removed
      /\ rest.removal = client.removal /\ rest.status.on = "no"
      /\ rest.pages = client.pages /\ rest.details = client.details
  BY <1>2 DEF Clients, NoRequest
<1>7. /\ told.query = client.query /\ told.archive = client.archive
      /\ told.cursor = client.cursor /\ told.removed = client.removed
      /\ told.removal = client.removal /\ told.status.on = "no"
      /\ told.pages = client.pages /\ told.details = client.details
  BY <1>2 DEF Clients, NoRequest
<1>8. /\ gone.query = client.query /\ gone.archive = client.archive
      /\ gone.cursor = client.cursor /\ gone.pages = client.pages
  BY <1>2 DEF Clients
<1> HIDE DEF rest, gone, told
<1>9. Shelf(client, rest) /\ Shelf(client, told)
  BY <1>6, <1>7, AsideShelf
<1>10. client.status.on = "missing" => Shelf(client, gone)
  BY <1>8, AsideLists DEF Shelf, Gone
<1>11. asked \in Clients(saved) /\ Shelf(client, asked)
  <2>1. asked \in Clients(saved)
    BY <1>2, <1>5, FetchDetailFits DEF Waits
  <2>2. QED BY <1>2, <1>5, <1>9, <2>1, FetchDetailShelf, ShelfTransitive
<1> HIDE DEF asked
<1>12. Shelf(client, Effects(told)) /\ Shelf(client, Effects(asked))
  BY <1>2, <1>5, <1>9, <1>11, ShelfThenEffects
<1>13. Shelf(client, client')
  BY <1>4, <1>9, <1>10, <1>12
<1>14. QED BY <1>1, <1>13, ShelfStep DEF server

LEMMA HearReadShelf ==
    ASSUME Shelving, HearRead
    PROVE  ShelvingNext
<1> DEFINE w == client.writes[1]
           ws == Tail(client.writes)
           shorter == [client EXCEPT !.writes = ws]
           next == StartWrite(shorter)
           intent == [next.intent EXCEPT !.pending = FALSE]
           made == [next EXCEPT !.intent = intent]
           settled == BumpRead(made)
           now == TRUE
           heard == Receive(settled, w.item, now)
           asked == FetchDetail(settled, TRUE, {})
<1>1. /\ client.writes # <<>> /\ client' = ReadAnswer(w)
      /\ UNCHANGED <<server, session, strays, left, seen>>
  BY DEF HearRead
<1>2. saved \in Nat /\ client \in Clients(saved)
  BY DEF Shelving, LibraryTyped
<1>3. w.item \in Threads /\ ws \in Seq(Writes)
  <2>1. client.writes \in Seq(Writes)
    BY <1>2, ClientParts
  <2>2. 1 \in 1 .. Len(client.writes) /\ w \in Writes /\ ws \in Seq(Writes)
    BY <1>1, <2>1, EmptySeq
  <2>3. QED BY <2>2 DEF Writes
<1>4. client' \in {next, Effects(heard), asked}
  BY <1>1 DEF ReadAnswer
<1> HIDE DEF w, ws, now
<1>5. /\ shorter \in Clients(saved)
      /\ shorter.query = client.query /\ shorter.archive = client.archive
      /\ shorter.cursor = client.cursor /\ shorter.removed = client.removed
      /\ shorter.removal = client.removal /\ shorter.status = client.status
      /\ shorter.pages = client.pages /\ shorter.details = client.details
  BY <1>2, <1>3 DEF Clients
<1> HIDE DEF shorter
<1>6. Shelf(client, shorter)
  BY <1>5, AsideShelf
<1>7. next \in Clients(saved) /\ Shelf(client, next)
  BY <1>2, <1>5, <1>6, StartWriteFits, StartWriteShelf, ShelfTransitive
<1> HIDE DEF next
<1>8. intent \in Intents
  <2>1. next.intent \in Intents
    BY <1>2, <1>7, ClientParts
  <2>2. CASE next.intent = NoIntent
    <3>1. NoIntent \in [status : {None}, pending : {FALSE}]
      BY DEF NoIntent
    <3>2. [NoIntent EXCEPT !.pending = FALSE] = NoIntent
      BY <3>1
    <3>3. intent = NoIntent
      BY <2>2, <3>2
    <3>4. QED BY <3>3 DEF Intents
  <2>3. CASE next.intent \in [status : ReadStatus, pending : BOOLEAN]
    <3>1. intent \in [status : ReadStatus, pending : BOOLEAN]
      BY <2>3
    <3>2. QED BY <3>1 DEF Intents
  <2>4. QED BY <2>1, <2>2, <2>3 DEF Intents
<1> HIDE DEF intent
<1>9. /\ made \in Clients(saved)
      /\ made.query = next.query /\ made.archive = next.archive
      /\ made.cursor = next.cursor /\ made.removed = next.removed
      /\ made.removal = next.removal /\ made.status = next.status
      /\ made.pages = next.pages /\ made.details = next.details
  BY <1>7, <1>8 DEF Clients
<1> HIDE DEF made
<1>10. Shelf(client, made)
  BY <1>7, <1>9, AsideShelf, ShelfTransitive
<1>11. settled \in Clients(saved) /\ Shelf(client, settled)
  BY <1>2, <1>9, <1>10, BumpReadFits, BumpReadShelf, ShelfTransitive
<1> HIDE DEF settled
<1>12. heard \in Clients(saved) /\ Shelf(client, heard)
  BY <1>2, <1>3, <1>11, ShelfHears
<1> HIDE DEF heard
<1>13. Shelf(client, asked)
  BY <1>2, <1>11, FetchDetailShelf, ShelfTransitive
<1>14. Shelf(client, Effects(heard))
  BY <1>2, <1>12, ShelfThenEffects
<1>15. Shelf(client, client')
  BY <1>4, <1>7, <1>13, <1>14
<1>16. QED BY <1>1, <1>15, ShelfStep DEF server

LEMMA HearRetryShelf ==
    ASSUME Shelving, HearRetry
    PROVE  ShelvingNext
<1> DEFINE item == client.retry.item
           rest == [client EXCEPT !.retry = NoRequest, !.retryKey = None]
           now == TRUE
           heard == Receive(rest, item, now)
<1>1. client' = Effects(heard) /\ UNCHANGED <<server, session, left, seen>>
  BY DEF HearRetry
<1>2. saved \in Nat /\ client \in Clients(saved)
  BY DEF Shelving, LibraryTyped
<1>3. item \in Threads
  <2>1. client.retry \in Requests
    BY <1>2, ClientParts
  <2>2. QED BY <2>1 DEF Requests
<1>4. rest \in Clients(saved)
  BY <1>2, ItemDefaults DEF Clients
<1>5. /\ rest.query = client.query /\ rest.archive = client.archive
      /\ rest.cursor = client.cursor /\ rest.removed = client.removed
      /\ rest.removal = client.removal /\ rest.status = client.status
      /\ rest.pages = client.pages /\ rest.details = client.details
  BY <1>2 DEF Clients
<1> HIDE DEF item, rest, now
<1>6. Shelf(client, rest)
  BY <1>5, AsideShelf
<1>7. heard \in Clients(saved) /\ Shelf(client, heard)
  BY <1>2, <1>3, <1>4, <1>6, ShelfHears
<1> HIDE DEF heard
<1>8. Shelf(client, client')
  BY <1>1, <1>2, <1>7, ShelfThenEffects
<1>9. QED BY <1>1, <1>8, ShelfStep DEF server

LEMMA HearVariantShelf ==
    ASSUME Shelving, HearVariant
    PROVE  ShelvingNext
<1> DEFINE rest == [client EXCEPT !.variant = NoRequest]
           err == client.open /\ client.density
           failed == [rest EXCEPT !.densityError = err]
           t == [client.thread EXCEPT !.variant = client.variant.item.variant]
           told == [rest EXCEPT !.thread = t]
<1>1. /\ client' = VariantAnswer
      /\ UNCHANGED <<server, session, strays, left, seen>>
  BY DEF HearVariant
<1>2. saved \in Nat /\ client \in Clients(saved)
  BY DEF Shelving, LibraryTyped
<1>3. rest \in Clients(saved) /\ rest.thread = client.thread
  BY <1>2, ItemDefaults DEF Clients
<1>4. client' \in {rest, failed, Effects(told)}
  BY <1>1, <1>3 DEF VariantAnswer
<1>5. t \in Threads
  <2>1. client.thread \in Threads /\ client.variant \in Requests
    BY <1>2, ClientParts
  <2>2. client.variant.item \in Threads
    BY <2>1 DEF Requests
  <2>3. client.variant.item.variant \in Variants
    BY <2>2 DEF Threads
  <2>4. QED BY <2>1, <2>3 DEF Threads
<1> HIDE DEF err, t
<1>6. /\ rest.query = client.query /\ rest.archive = client.archive
      /\ rest.cursor = client.cursor /\ rest.removed = client.removed
      /\ rest.removal = client.removal /\ rest.status = client.status
      /\ rest.pages = client.pages /\ rest.details = client.details
  BY <1>2 DEF Clients
<1> HIDE DEF rest
<1>7. /\ failed.query = rest.query /\ failed.archive = rest.archive
      /\ failed.cursor = rest.cursor /\ failed.removed = rest.removed
      /\ failed.removal = rest.removal /\ failed.status = rest.status
      /\ failed.pages = rest.pages /\ failed.details = rest.details
  BY <1>3 DEF Clients
<1>8. /\ told \in Clients(saved)
      /\ told.query = rest.query /\ told.archive = rest.archive
      /\ told.cursor = rest.cursor /\ told.removed = rest.removed
      /\ told.removal = rest.removal /\ told.status = rest.status
      /\ told.pages = rest.pages /\ told.details = rest.details
  BY <1>3, <1>5 DEF Clients
<1> HIDE DEF failed, told
<1>9. Shelf(client, rest) /\ Shelf(client, failed) /\ Shelf(client, told)
  BY <1>6, <1>7, <1>8, AsideShelf
<1>10. Shelf(client, client')
  BY <1>2, <1>4, <1>8, <1>9, ShelfThenEffects
<1>11. QED BY <1>1, <1>10, ShelfStep DEF server

LEMMA HearSaveShelf ==
    ASSUME Shelving, HearSave
    PROVE  ShelvingNext
<1> DEFINE rest == [client EXCEPT !.save = NoSave]
           item == client.save.item
           top == client.save.row
           now == TRUE
           heard == Receive(rest, item, now)
           home == <<top>> \o Without(heard.home, {top})
           d == [heard EXCEPT !.home = home]
<1>1. /\ client.save.on \in {"new", "known"} /\ client' = Effects(d)
      /\ UNCHANGED <<server, session, strays, left, seen>>
  BY DEF HearSave, SaveAnswer
<1>2. saved \in Nat /\ client \in Clients(saved)
  BY DEF Shelving, LibraryTyped
<1>3. item \in Threads /\ top \in 1 .. saved
  <2>1. client.save \in Saves(saved)
    BY <1>2, ClientParts
  <2>2. QED BY <1>1, <1>2, <2>1 DEF Saves
<1>4. rest \in Clients(saved)
  BY <1>2, ItemDefaults DEF Clients
<1>5. /\ rest.query = client.query /\ rest.archive = client.archive
      /\ rest.cursor = client.cursor /\ rest.removed = client.removed
      /\ rest.removal = client.removal /\ rest.status = client.status
      /\ rest.pages = client.pages /\ rest.details = client.details
  BY <1>2 DEF Clients
<1> HIDE DEF item, rest, top, now
<1>6. Shelf(client, rest)
  BY <1>5, AsideShelf
<1>7. heard \in Clients(saved) /\ Shelf(client, heard)
  BY <1>2, <1>3, <1>4, <1>6, ShelfHears
<1> HIDE DEF heard
<1>8. home \in Lists(saved)
  <2>1. heard.home \in Lists(saved)
    BY <1>2, <1>7, ClientParts
  <2>2. QED BY <1>2, <1>3, <2>1, OnTopFits
<1> HIDE DEF home
<1>9. /\ d \in Clients(saved)
      /\ d.query = heard.query /\ d.archive = heard.archive
      /\ d.cursor = heard.cursor /\ d.removed = heard.removed
      /\ d.removal = heard.removal /\ d.status = heard.status
      /\ d.pages = heard.pages /\ d.details = heard.details
  <2>1. heard \in Clients(saved)
    BY <1>7
  <2>2. QED BY <1>8, <2>1 DEF Clients
<1> HIDE DEF d
<1>10. Shelf(client, d)
  BY <1>7, <1>9, AsideShelf, ShelfTransitive
<1>11. Shelf(client, client')
  BY <1>1, <1>2, <1>9, <1>10, ShelfThenEffects
<1>12. QED BY <1>1, <1>11, ShelfStep DEF server

(* The removed article leaves the archive.                                 *)
LEMMA HearRemovalShelf ==
    ASSUME Shelving, HearRemoval
    PROVE  ShelvingNext
<1> DEFINE rest == [client EXCEPT !.removal = NoRequest]
           home == Without(client.home, {Focus})
           archive == Without(client.archive, {Focus})
           gone == [rest EXCEPT !.removed = TRUE, !.home = home, !.archive = archive]
<1>1. saved \in Nat /\ client \in Clients(saved)
  BY DEF Shelving, LibraryTyped
<1>2. rest \in Clients(saved) /\ rest.home = client.home /\ rest.archive = client.archive
  BY <1>1, ItemDefaults DEF Clients
<1>3. /\ client' \in {rest, gone, Close(gone)}
      /\ client.removal.on = "missing" => client' = rest
      /\ client.removal.on \in {"ok", "missing"}
      /\ UNCHANGED <<server, session, strays, left, seen>>
  BY <1>2 DEF HearRemoval
<1>4. /\ home \in Lists(saved) /\ archive \in Lists(saved)
      /\ Range(archive) = Range(client.archive) \ {Focus}
  BY <1>1, ClientParts, WithoutFits
<1> HIDE DEF home, archive
<1>5. /\ gone \in Clients(saved)
      /\ gone.query = client.query /\ gone.archive = archive
      /\ gone.cursor = client.cursor /\ gone.pages = client.pages
  BY <1>1, <1>2, <1>4 DEF Clients
<1>6. /\ rest.query = client.query /\ rest.archive = client.archive
      /\ rest.cursor = client.cursor /\ rest.removed = client.removed
      /\ rest.removal.on = "no" /\ rest.status = client.status
      /\ rest.pages = client.pages /\ rest.details = client.details
  BY <1>1 DEF Clients, NoRequest
<1> HIDE DEF rest, gone
<1>7. Shelf(client, rest)
  BY <1>6, AsideShelf
<1>8. client.removal.on = "ok" => Shelf(client, gone)
  BY <1>4, <1>5 DEF Shelf, ListsKept, Gone, SamePage
<1>9. client.removal.on = "ok" => Shelf(client, Close(gone))
  BY <1>1, <1>5, <1>8, CloseShelf, ShelfTransitive
<1>10. Shelf(client, client')
  BY <1>3, <1>7, <1>8, <1>9
<1>11. QED BY <1>3, <1>10, ShelfStep DEF server

-----------------------------------------------------------------------------
(* A page of the archive is heard.                                         *)

LEMMA JoinedRange ==
    ASSUME NEW n \in Nat, NEW l \in Lists(n), NEW m \in Lists(n)
    PROVE  Range(AppendUnique(l, m)) = Range(l) \cup Range(m)
<1> DEFINE w == Without(m, Range(l))
           j == l \o w
<1>1. w \in Lists(n) /\ Range(w) = Range(m) \ Range(l)
  BY WithoutFits
<1> HIDE DEF w
<1>2. l \in Seq(1 .. n) /\ w \in Seq(1 .. n)
  BY <1>1 DEF Lists
<1>3. /\ Len(j) = Len(l) + Len(w) /\ DOMAIN j = 1 .. Len(j)
      /\ Len(l) \in Nat /\ Len(w) \in Nat
      /\ DOMAIN l = 1 .. Len(l) /\ DOMAIN w = 1 .. Len(w)
      /\ \A i \in 1 .. Len(j) : j[i] = IF i <= Len(l) THEN l[i] ELSE w[i - Len(l)]
  BY <1>2
<1>4. j = AppendUnique(l, m)
  BY DEF AppendUnique, w
<1> HIDE DEF j
<1>5. ASSUME NEW i \in DOMAIN j PROVE j[i] \in Range(l) \cup Range(w)
  <2>1. CASE i <= Len(l)
    <3>1. i \in DOMAIN l /\ j[i] = l[i]
      BY <1>3, <2>1
    <3>2. QED BY <3>1 DEF Range
  <2>2. CASE i > Len(l)
    <3>1. i - Len(l) \in DOMAIN w /\ j[i] = w[i - Len(l)]
      BY <1>3, <2>2
    <3>2. QED BY <3>1 DEF Range
  <2>3. QED BY <1>3, <2>1, <2>2
<1>6. ASSUME NEW i \in DOMAIN l PROVE l[i] \in Range(j)
  <2>1. i \in DOMAIN j /\ j[i] = l[i]
    BY <1>3
  <2>2. QED BY <2>1 DEF Range
<1>7. ASSUME NEW i \in DOMAIN w PROVE w[i] \in Range(j)
  <2>1. i + Len(l) \in DOMAIN j /\ j[i + Len(l)] = w[i]
    BY <1>3
  <2>2. QED BY <2>1 DEF Range
<1>8. \A x \in Range(j) : x \in Range(l) \cup Range(w)
  BY <1>5 DEF Range
<1>9. \A x \in Range(l) : x \in Range(j)
  BY <1>6 DEF Range
<1>10. \A x \in Range(w) : x \in Range(j)
  BY <1>7 DEF Range
<1>11. QED BY <1>1, <1>4, <1>8, <1>9, <1>10

(* A next page begins where the archive is known to end, and reaches down  *)
(* to the one after it; a first page replaces the archive, and with no     *)
(* other page asked for there is one place left.                           *)
LEMMA PageHeard ==
    ASSUME NEW n \in Nat, NEW P, P \subseteq 1 .. n,
           NEW c \in Clients(n), NEW mixed, ArchiveSound(c, P, n, mixed),
           NEW p \in c.pages, p.fresh, p.on = "ok",
           NEW d, d.query = c.query, d.cursor = p.next,
           d.pages = c.pages \ {p}, Gone(d) => Gone(c),
           NEW R, R \subseteq Range(p.rows), \A r \in P : r \in Range(p.rows) => r \in R,
           Range(d.archive) = IF p.more THEN Range(c.archive) \cup R ELSE R,
           NEW mixt,
           p.more => (mixed => mixt),
           ~p.more => ((\E q \in c.pages : q.fresh /\ q.more) => mixt)
    PROVE  ArchiveSound(d, P, n, mixt)
<1>1. p \in PageRequests(n) /\ PageSound(c, p, P, n) /\ PageFilled(p, P)
  BY ClientParts DEF ArchiveSound, PageSound
<1>2. Range(p.rows) \subseteq 1 .. n /\ p.more \in BOOLEAN
  <2>1. p.rows \in Lists(n) /\ p.more \in BOOLEAN
    BY <1>1 DEF PageRequests
  <2>2. QED BY <2>1, ListParts
<1>3. /\ p.next = NoCursor => p.next.row = 0
      /\ p.next # NoCursor => p.next.row \in Range(p.rows) /\ p.next.row \in 1 .. n
  BY <1>1, <1>2 DEF PageFilled, NoCursor
<1>4. Placed(d.cursor, n)
  BY <1>3 DEF Placed
<1>5. \A q \in d.pages : PageSound(d, q, P, n)
  BY DEF ArchiveSound, PageSound
<1>6. p.next.row \in 0 .. n
  BY <1>3
<1>7. P \subseteq Nat /\ \A r \in P : r > 0
  OBVIOUS
<1>8. \A r \in Wanted(P, c.query) : r \in P
  BY DEF Wanted
<1>9. ASSUME ~mixt, p.more PROVE Filled(d, P)
  <2> DEFINE b == p.cursor.row
  <2>1. p \in Asked(c) /\ b \in Places(c) /\ Filled(c, P)
    BY <1>9 DEF Asked, Places, ArchiveSound
  <2>2. Places(d) \subseteq Places(c) \cup {p.next.row}
    BY DEF Places, Asked
  <2>3. b \in 1 .. n /\ p.cursor # NoCursor
    BY <1>1, <1>9 DEF PageSound, Placed
  <2>4. \A u \in Range(p.rows) : u < b
    BY <1>1, <2>3 DEF PageFilled
  <2>5. p.next.row < b
    BY <1>3, <2>3, <2>4
  <2>6. Places(c) \subseteq 0 .. n /\ Range(c.archive) \subseteq 1 .. n
    <3>1. Places(c) \subseteq 0 .. n
      BY PlacesSaved DEF ArchiveSound
    <3>2. QED BY <3>1, ClientParts, ListParts
  <2>7. \A r \in Wanted(P, c.query) : r >= p.next.row /\ r < b => r \in R
    BY <1>1, <1>8, <2>3 DEF PageFilled, Reaches, PageSound
  <2>8. Range(d.archive) = Range(c.archive) \cup R /\ \A u \in R : u < b /\ u \in Nat
    BY <1>2, <1>9, <2>4
  <2> SUFFICES ASSUME NEW k \in Places(d), NEW r \in Wanted(P, d.query), r >= k,
                      NEW u \in Range(d.archive) \cup Places(d), r <= u
               PROVE  r \in Range(d.archive)
    BY DEF Filled
  <2> HIDE DEF b
  <2>9. r \in Wanted(P, c.query) /\ r \in Nat
    BY <1>7, <1>8
  <2>10. CASE r >= b
    <3>1. u \in Range(c.archive) \cup Places(c)
      <4>1. ~(u < b)
        BY <2>3, <2>6, <2>8, <2>9, <2>10, <1>6, <2>2
      <4>2. u \notin R /\ u # p.next.row
        BY <2>5, <2>8, <4>1
      <4>3. QED BY <2>2, <2>8, <4>2
    <3>2. r \in Range(c.archive)
      BY <2>1, <2>9, <2>10, <3>1 DEF Filled
    <3>3. QED BY <2>8, <3>2
  <2>11. CASE r < b
    <3>1. CASE k = p.next.row
      BY <2>7, <2>8, <2>9, <2>11, <3>1
    <3>2. CASE k # p.next.row
      <4>1. k \in Places(c)
        BY <2>2, <3>2
      <4>2. r <= b
        BY <2>3, <2>9, <2>11
      <4>3. r \in Range(c.archive)
        BY <2>1, <2>9, <4>1, <4>2 DEF Filled
      <4>4. QED BY <2>8, <4>3
    <3>3. QED BY <3>1, <3>2
  <2>12. QED BY <2>3, <2>9, <2>10, <2>11
<1>10. ASSUME ~mixt, ~p.more PROVE Filled(d, P)
  <2>1. Asked(d) = {}
    BY <1>10 DEF Asked
  <2>2. Places(d) = {p.next.row}
    BY <2>1 DEF Places
  <2>3. p.cursor = NoCursor
    BY <1>1, <1>10 DEF PageSound
  <2>4. Range(d.archive) = R
    BY <1>10
  <2> SUFFICES ASSUME NEW k \in Places(d), NEW r \in Wanted(P, d.query), r >= k,
                      NEW u \in Range(d.archive) \cup Places(d), r <= u
               PROVE  r \in Range(d.archive)
    BY DEF Filled
  <2>5. r \in P /\ r \in Nat /\ r > 0 /\ r \in Wanted(P, p.query)
    BY <1>1, <1>7, <1>8 DEF PageSound
  <2>6. u \in Range(p.rows)
    <3>1. CASE u \in R
      BY <3>1
    <3>2. CASE u = p.next.row
      <4>1. p.next # NoCursor
        BY <1>3, <2>5, <3>2
      <4>2. QED BY <1>3, <3>2, <4>1
    <3>3. QED BY <2>2, <2>4, <3>1, <3>2
  <2>7. Reaches(p, r)
    BY <2>2, <2>3, <2>6 DEF Reaches
  <2>8. QED BY <1>1, <2>4, <2>5, <2>7 DEF PageFilled
<1>11. ~mixt => Filled(d, P)
  BY <1>2, <1>9, <1>10
<1>12. Focus \in P => ~Gone(d)
  BY DEF ArchiveSound
<1>13. QED BY <1>4, <1>5, <1>11, <1>12 DEF ArchiveSound

LEMMA HearPageShelf ==
    ASSUME Shelving, HearPage
    PROVE  ShelvingNext
<1>1. PICK p \in client.pages :
         /\ p.on # "sent" /\ client' = PageAnswer(p)
         /\ seen' = IF p.fresh /\ ~p.more
                    THEN [seen EXCEPT !.mixed = \E q \in client.pages :
                                                   q.fresh /\ q.more]
                    ELSE seen
         /\ UNCHANGED <<row, present, saved, session, strays, left>>
  BY DEF HearPage, server
<1>2. /\ saved \in Nat /\ client \in Clients(saved) /\ present \subseteq 1 .. saved
      /\ ArchiveSound(client, present, saved, seen.mixed)
      /\ seen \in [mixed : BOOLEAN, late : BOOLEAN]
  BY DEF Shelving, LibraryTyped
<1> DEFINE ps == client.pages \ {p}
           rest == [client EXCEPT !.pages = ps]
           ended == [rest EXCEPT !.moreBusy = FALSE]
           failed == [ended EXCEPT !.archiveError = TRUE]
           heard == Receive(ended, p.item, p.same)
           rows == WithoutRemoved(heard, p.rows)
           archive == IF p.more THEN AppendUnique(heard.archive, rows) ELSE rows
           d == [heard EXCEPT !.archive = archive, !.cursor = p.next,
                              !.archiveError = FALSE]
<1>3. p \in PageRequests(saved) /\ PageSound(client, p, present, saved)
  BY <1>2, ClientParts DEF ArchiveSound
<1>4. /\ p.item \in Threads /\ p.rows \in Lists(saved) /\ p.next \in Cursors
      /\ p.more \in BOOLEAN /\ p.on \in {"ok", "refused"}
  BY <1>1, <1>3 DEF PageRequests
<1>5. ps \in SUBSET PageRequests(saved) /\ ps \subseteq client.pages
  BY <1>2, ClientParts
<1>6. \/ ~p.fresh /\ client' = rest
      \/ p.fresh /\ p.on # "ok" /\ client' = failed
      \/ p.fresh /\ p.on = "ok" /\ client' = Effects(d)
  BY <1>1 DEF PageAnswer
<1> DEFINE mixt == seen'.mixed
<1>7. /\ p.fresh /\ ~p.more => mixt = (\E q \in client.pages : q.fresh /\ q.more)
      /\ ~(p.fresh /\ ~p.more) => mixt = seen.mixed
  BY <1>1, <1>2
<1> HIDE DEF ps, mixt
<1>8. ended \in Clients(saved)
  BY <1>2, <1>5 DEF Clients
<1>9. /\ rest.query = client.query /\ rest.archive = client.archive
      /\ rest.cursor = client.cursor /\ rest.removed = client.removed
      /\ rest.removal = client.removal /\ rest.status = client.status
      /\ rest.pages = ps /\ rest.details = client.details
  BY <1>2 DEF Clients
<1>10. /\ ended.query = client.query /\ ended.archive = client.archive
       /\ ended.cursor = client.cursor /\ ended.removed = client.removed
       /\ ended.removal = client.removal /\ ended.status = client.status
       /\ ended.pages = ps /\ ended.details = client.details
  BY <1>2 DEF Clients
<1>11. /\ failed.query = client.query /\ failed.archive = client.archive
       /\ failed.cursor = client.cursor /\ failed.removed = client.removed
       /\ failed.removal = client.removal /\ failed.status = client.status
       /\ failed.pages = ps /\ failed.details = client.details
  BY <1>2 DEF Clients
<1> HIDE DEF rest, ended, failed
<1>12. Shelf(client, rest) /\ Shelf(client, failed)
  BY <1>5, <1>9, <1>11, AsideShelf
<1>13. CASE ~(p.fresh /\ p.on = "ok")
  <2>1. Shelf(client, client')
    BY <1>6, <1>12, <1>13
  <2>2. mixt = seen.mixed
    BY <1>3, <1>4, <1>7, <1>13 DEF PageSound
  <2>3. QED BY <1>1, <2>1, <2>2, ShelfStep DEF mixt
<1>14. CASE p.fresh /\ p.on = "ok"
  <2>1. PICK t \in Threads : /\ heard = [ended EXCEPT !.thread = t]
                             /\ heard \in Clients(saved)
    BY <1>2, <1>4, <1>8, ReceiveFits
  <2>2. /\ heard.query = client.query /\ heard.archive = client.archive
        /\ heard.removed = client.removed
        /\ heard.removal = client.removal /\ heard.status = client.status
        /\ heard.pages = ps /\ heard.details = client.details
    BY <1>8, <1>10, <2>1 DEF Clients
  <2> HIDE DEF heard
  <2>3. /\ rows \in Lists(saved) /\ Range(rows) \subseteq Range(p.rows)
        /\ \A r \in Range(p.rows) : r \in Range(rows) \/ (heard.removed /\ r = Focus)
    <3>1. /\ Without(p.rows, {Focus}) \in Lists(saved)
          /\ Range(Without(p.rows, {Focus})) = Range(p.rows) \ {Focus}
      BY <1>2, <1>4, WithoutFits
    <3>2. QED BY <1>4, <3>1 DEF WithoutRemoved
  <2> HIDE DEF rows
  <2>4. \A r \in present : r \in Range(p.rows) => r \in Range(rows)
    BY <1>2, <2>2, <2>3 DEF ArchiveSound, Gone
  <2>5. /\ archive \in Lists(saved)
        /\ Range(archive) = IF p.more THEN Range(client.archive) \cup Range(rows)
                            ELSE Range(rows)
    <3>1. client.archive \in Lists(saved)
      BY <1>2, ClientParts
    <3>2. QED BY <1>2, <2>2, <2>3, <3>1, JoinedRange, AppendUniqueFits
  <2> HIDE DEF archive
  <2>6. /\ d \in Clients(saved)
        /\ d.query = heard.query /\ d.archive = archive /\ d.cursor = p.next
        /\ d.removed = heard.removed /\ d.removal = heard.removal
        /\ d.status = heard.status
        /\ d.pages = heard.pages /\ d.details = heard.details
    <3>1. heard \in Clients(saved)
      BY <2>1
    <3>2. QED BY <1>4, <2>5, <3>1 DEF Clients
  <2> HIDE DEF d
  <2>7. Gone(d) => Gone(client)
    BY <2>2, <2>6 DEF Gone
  <2>8. ArchiveSound(d, present, saved, mixt)
    <3>1. d.query = client.query /\ d.pages = client.pages \ {p}
      BY <2>2, <2>6 DEF ps
    <3>2. /\ p.more => (seen.mixed => mixt)
          /\ ~p.more => ((\E q \in client.pages : q.fresh /\ q.more) => mixt)
      BY <1>7, <1>14
    <3>3. QED BY <1>2, <1>14, <2>3, <2>4, <2>5, <2>6, <2>7, <3>1, <3>2, PageHeard
  <2>9. Topped(present, saved, present, saved)
    BY <1>2 DEF Topped
  <2>10. Shelf(d, Effects(d))
    BY <1>2, <2>6, EffectsShelf
  <2>11. ArchiveSound(Effects(d), present, saved, mixt)
    BY <2>6, <2>8, <2>9, <2>10, ShelfSound DEF Shelf
  <2>12. QED BY <1>1, <1>6, <1>14, <2>11 DEF ShelvingNext, mixt
<1>15. QED BY <1>13, <1>14

-----------------------------------------------------------------------------
(* The steps that ask for pages, and those that begin the archive anew.    *)

LEMMA ListShelf ==
    ASSUME Shelving, TimerFires \/ Return \/ PullArchive \/ PullMore
    PROVE  ShelvingNext
<1>1. client \in Clients(saved) /\ saved \in Nat
  BY DEF Shelving, LibraryTyped
<1>2. seen' = seen /\ saved' = saved /\ present' = present
  BY DEF TimerFires, Return, PullArchive, PullMore, Quietly, server
<1>3. Shelf(client, client')
  <2>1. CASE TimerFires
    <3> DEFINE c == [client EXCEPT !.timer = FALSE]
    <3>1. /\ c \in Clients(saved)
          /\ c.query = client.query /\ c.archive = client.archive
          /\ c.cursor = client.cursor /\ c.removed = client.removed
          /\ c.removal = client.removal /\ c.status = client.status
          /\ c.pages = client.pages /\ c.details = client.details
      BY <1>1 DEF Clients
    <3>2. client' = RefreshArchive(c)
      BY <2>1 DEF TimerFires
    <3> HIDE DEF c
    <3>3. Shelf(client, c)
      BY <3>1, AsideShelf
    <3>4. QED BY <1>1, <3>1, <3>2, <3>3, RefreshArchiveShelf, ShelfTransitive
  <2>2. CASE Return
    BY <1>1, <2>2, ResumeShelf DEF Return
  <2>3. CASE PullArchive
    BY <1>1, <2>3, RefreshArchiveShelf DEF PullArchive
  <2>4. CASE PullMore
    BY <1>1, <2>4, LoadMoreShelf DEF PullMore, CanLoadMore
  <2>5. QED BY <2>1, <2>2, <2>3, <2>4
<1>4. QED BY <1>2, <1>3, ShelfStep

(* With the archive empty and no page asked for nothing is left out.       *)
LEMMA EmptyFilled ==
    ASSUME NEW n \in Nat, NEW P, P \subseteq 1 .. n, NEW d, d.archive = <<>>,
           d.cursor = NoCursor, \A p \in d.pages : ~p.fresh \/ ~p.more
    PROVE  Filled(d, P)
<1>1. Asked(d) = {}
  BY DEF Asked
<1>2. Places(d) = {0}
  BY <1>1 DEF Places, NoCursor
<1>3. Range(d.archive) = {}
  BY DEF Range
<1>4. \A r \in Wanted(P, d.query) : r \in Nat /\ ~(r <= 0)
  BY DEF Wanted
<1>5. QED BY <1>2, <1>3, <1>4 DEF Filled

LEMMA ResetShelf ==
    ASSUME Shelving, ShowScreen \/ ChangeQuery
    PROVE  ShelvingNext
<1>1. /\ client \in Clients(saved) /\ saved \in Nat /\ present \subseteq 1 .. saved
      /\ ArchiveSound(client, present, saved, seen.mixed)
  BY DEF Shelving, LibraryTyped
<1>2. saved' = saved /\ present' = present
  BY DEF ShowScreen, ChangeQuery, server
<1>3. PICK c \in Clients(saved) :
         /\ client' = ResetArchive(c)
         /\ c.removed = client.removed /\ c.removal = client.removal
         /\ c.status = client.status /\ c.pages = client.pages
         /\ c.details = client.details
  <2>1. CASE ShowScreen
    <3>1. PICK screen \in {"home", "archive"} :
             client' = ResetArchive([client EXCEPT !.screen = screen])
      BY <2>1 DEF ShowScreen
    <3> DEFINE b == [client EXCEPT !.screen = screen]
    <3>2. /\ b \in Clients(saved)
          /\ b.removed = client.removed /\ b.removal = client.removal
          /\ b.status = client.status /\ b.pages = client.pages
          /\ b.details = client.details
      BY <1>1 DEF Clients
    <3>3. client' = ResetArchive(b)
      BY <3>1
    <3> HIDE DEF b
    <3>4. QED BY <3>2, <3>3
  <2>2. CASE ChangeQuery
    <3>1. PICK query \in Filters :
             client' = ResetArchive([client EXCEPT !.query = query])
      BY <2>2 DEF ChangeQuery, Filters
    <3> DEFINE b == [client EXCEPT !.query = query]
    <3>2. /\ b \in Clients(saved)
          /\ b.removed = client.removed /\ b.removal = client.removal
          /\ b.status = client.status /\ b.pages = client.pages
          /\ b.details = client.details
      BY <1>1 DEF Clients
    <3>3. client' = ResetArchive(b)
      BY <3>1
    <3> HIDE DEF b
    <3>4. QED BY <3>2, <3>3
  <2>3. QED BY <2>1, <2>2
<1> DEFINE old == {[p EXCEPT !.fresh = FALSE] : p \in c.pages}
<1>4. /\ client'.archive = <<>> /\ client'.cursor = NoCursor
      /\ client'.removed = client.removed /\ client'.removal = client.removal
      /\ client'.status = client.status /\ client'.details = client.details
      /\ client'.pages = old
  BY <1>3 DEF ResetArchive, Clients
<1>5. ASSUME NEW x \in old
      PROVE  ~x.fresh /\ \E p \in client.pages : SamePage(x, p)
  <2>1. PICK p \in client.pages : x = [p EXCEPT !.fresh = FALSE]
    BY <1>3
  <2>2. p \in PageRequests(saved)
    BY <1>1, ClientParts
  <2>3. QED BY <2>1, <2>2 DEF PageRequests, SamePage
<1> HIDE DEF old
<1>6. Filled(client', present)
  BY <1>1, <1>4, <1>5, EmptyFilled
<1>7. ASSUME NEW x \in old PROVE PageSound(client', x, present, saved)
  <2>1. PICK p \in client.pages : SamePage(x, p)
    BY <1>5
  <2>2. PageSound(client, p, present, saved)
    BY <1>1 DEF ArchiveSound
  <2>3. p.on = "ok" => PageFilled(x, present)
    BY <2>1, <2>2 DEF PageSound, PageFilled, SamePage, Reaches
  <2>4. QED BY <1>5, <2>1, <2>2, <2>3 DEF PageSound, SamePage
<1>8. Gone(client') = Gone(client)
  BY <1>4 DEF Gone
<1>9. ArchiveSound(client', present, saved, seen'.mixed)
  BY <1>1, <1>4, <1>6, <1>7, <1>8 DEF ArchiveSound, Placed
<1>10. QED BY <1>2, <1>9 DEF ShelvingNext

-----------------------------------------------------------------------------
(* Sessions, and the invariant.                                            *)
ArchiveOrdered ==
    client.account = owner => ArchiveSound(client, present, saved, seen.mixed)

LEMMA BegunSound ==
    ASSUME NEW n \in Nat, NEW P, P \subseteq 1 .. n, NEW d, Empty(d),
           ~d.removed, d.pages = {}, d.cursor = NoCursor, NEW mixed
    PROVE  ArchiveSound(d, P, n, mixed)
<1>1. Filled(d, P)
  BY EmptyFilled DEF Empty
<1>2. ~Gone(d)
  BY DEF Empty, Gone, NoRequest
<1>3. QED BY <1>1, <1>2 DEF ArchiveSound, Placed

(* A session that begins, or a start that leaves the hook alone.           *)
LEMMA SessionShelf ==
    ASSUME LibraryTyped, ArchiveOrdered, ~Begun(client, client'),
           client'.account = owner, client'.account = client.account,
           Logout \/ Login \/ Restart \/ RestoreSession \/ Reconnect
    PROVE  ShelvingNext
<1> DEFINE home == "home"
<1>1. /\ client.query \in Filters
      /\ session.boot # "ready" => client.account = None
  BY ClientParts DEF LibraryTyped
<1>2. owner # None
  BY LibraryAssumption, UsersAssumption
<1>3. CASE Logout \/ Restart
  <2> DEFINE all == "all"
             u == None
  <2>1. client' = Begin(u, home, client.query) \/ client' = Begin(u, home, all)
    BY <1>3 DEF Logout, StartSession, Restart
  <2>2. u \in Users \cup {None} /\ home \in {"home", "archive"}
    OBVIOUS
  <2>3. all \in Filters /\ u = None
    BY DEF Filters
  <2> HIDE DEF home, all, u
  <2>4. PICK query \in Filters : client' = Begin(u, home, query)
    BY <1>1, <2>1, <2>3
  <2>5. Begin(u, home, query).account = u
    BY <2>2, 0 \in Nat, BeginFits
  <2>6. QED BY <1>2, <2>3, <2>4, <2>5
<1>4. CASE Login
  BY <1>2, <1>4 DEF Login
<1>5. CASE RestoreSession \/ Reconnect
  BY <1>1, <1>2, <1>5 DEF RestoreSession, Reconnect
<1>6. QED BY <1>3, <1>4, <1>5

(* A step within a session.                                                *)
LEMMA WithinShelf ==
    ASSUME Shelving, Next,
           ~(Logout \/ Login \/ Restart \/ RestoreSession \/ Reconnect)
    PROVE  ShelvingNext
<1>1. CASE Serve
  BY <1>1, ServerShelf, ServePageShelf, GoneShelf, ServeStrayShelf DEF Serve
<1>2. CASE Hear
  BY <1>2, HearHomeShelf, HearPageShelf, HearDetailShelf, HearStatusShelf,
     HearReadShelf, HearRetryShelf, HearVariantShelf, HearSaveShelf,
     HearRemovalShelf DEF Hear
<1>3. CASE Lose
  BY <1>3, LoseShelf
<1>4. CASE User
  BY <1>4, AskShelf, ChooseShelf, ListShelf, ResetShelf DEF User
<1>5. CASE TimerFires \/ Poll \/ Reconcile \/ Return
  BY <1>5, ListShelf, AskShelf, ChooseShelf
<1>6. CASE (\E phase \in {"done", "failed"} : Summarize(phase)) \/ FinishVariant
  BY <1>6, ServerShelf
<1>7. QED BY <1>1, <1>2, <1>3, <1>4, <1>5, <1>6 DEF Next

LEMMA ArchiveStep ==
    ASSUME LibraryTyped, ArchiveOrdered, Next
    PROVE  ArchiveOrdered'
<1> SUFFICES ASSUME client'.account = owner PROVE ShelvingNext
  BY DEF ArchiveOrdered, ShelvingNext
<1> DEFINE Starts == Logout \/ Login \/ Restart \/ RestoreSession \/ Reconnect
<1>1. Outcome
  BY EveryStep
<1>2. CASE Begun(client, client')
  <2>1. saved' \in Nat /\ present' \subseteq 1 .. saved'
    BY <1>1 DEF Outcome, LibraryTyped
  <2>2. QED BY <1>2, <2>1, BegunSound DEF Begun, ShelvingNext
<1>3. CASE ~Begun(client, client')
  <2>1. client'.account = client.account
    BY <1>1, <1>3 DEF Outcome, Heard, Served
  <2>2. Shelving
    BY <2>1 DEF Shelving, ArchiveOrdered
  <2>3. QED BY <1>3, <2>1, <2>2, SessionShelf, WithinShelf
<1>4. QED BY <1>2, <1>3

LEMMA InitArchive ==
    ASSUME Init
    PROVE  ArchiveOrdered
<1> DEFINE home == "home"
           all == "all"
           u == owner
<1>1. client = Begin(u, home, all)
  BY DEF Init
<1>2. u \in Users \cup {None} /\ home \in {"home", "archive"} /\ all \in Filters
  BY LibraryAssumption DEF Filters
<1>3. saved \in Nat /\ present \subseteq 1 .. saved
  BY InitTyped DEF LibraryTyped
<1> HIDE DEF home, all, u
<1>4. Empty(client) /\ ~client.removed /\ client.pages = {} /\ client.cursor = NoCursor
  BY <1>1, <1>2, 0 \in Nat, BeginFits
<1>5. QED BY <1>3, <1>4, BegunSound DEF ArchiveOrdered

(* Together with LibraryTyped, ArchiveOrdered is inductive: each page in   *)
(* flight begins at a place down to which the archive is complete, and has *)
(* all there is down to the place where the next one begins.               *)
THEOREM LibraryArchiveOrdered == Spec => []ArchiveOrdered
<1>1. Init => ArchiveOrdered
  BY InitArchive
<1>2. LibraryTyped /\ ArchiveOrdered /\ [Next]_vars => ArchiveOrdered'
  <2>1. ASSUME ArchiveOrdered, UNCHANGED vars PROVE ArchiveOrdered'
    BY <2>1 DEF vars, ArchiveOrdered
  <2>2. QED BY <2>1, ArchiveStep
<1>3. QED BY <1>1, <1>2, LibraryInductive, PTL DEF Spec

(* The archive has no hole from its first row down to where the next page  *)
(* begins, unless a page was asked for while the list was being refreshed. *)
THEOREM ArchiveContiguous == Spec => []ArchiveIsContiguous
<1>1. LibraryTyped /\ ArchiveOrdered => ArchiveIsContiguous
  <2> SUFFICES ASSUME LibraryTyped, ArchiveOrdered, ~seen.mixed,
                      client.archive # <<>>, NEW r \in present,
                      Matches(r, client.query),
                      client.query = "unread" => r # Focus,
                      r <= client.archive[1],
                      client.cursor # NoCursor => r >= client.cursor.row
               PROVE  Contains(client.archive, r)
    BY DEF ArchiveIsContiguous
  <2>1. /\ saved \in Nat /\ client \in Clients(saved) /\ present \subseteq 1 .. saved
        /\ client.account = owner
    BY DEF LibraryTyped, Empty
  <2>2. Filled(client, present)
    BY <2>1 DEF ArchiveOrdered, ArchiveSound
  <2>3. client.archive \in Seq(1 .. saved) /\ client.query \in Filters
    BY <2>1, ClientParts DEF Lists
  <2>4. DOMAIN client.archive = 1 .. Len(client.archive) /\ 1 \in DOMAIN client.archive
    BY <2>3, EmptySeq
  <2>5. client.archive[1] \in Range(client.archive)
    BY <2>4 DEF Range
  <2>6. client.query \in {"all", "unread"}
    BY <2>3, QueriesAssumption DEF Filters
  <2>7. r \in Wanted(present, client.query)
    BY <2>6 DEF Wanted
  <2>8. r >= client.cursor.row /\ client.cursor.row \in Places(client)
    BY <2>1 DEF NoCursor, Places
  <2>9. r \in Range(client.archive)
    BY <2>2, <2>5, <2>7, <2>8 DEF Filled
  <2>10. QED BY <2>4, <2>9 DEF Contains, Range
<1>2. QED BY <1>1, LibraryInductive, LibraryArchiveOrdered, PTL
===============================================================================
