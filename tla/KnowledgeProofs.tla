----------------------------- MODULE KnowledgeProofs -------------------------
(***************************************************************************)
(* Proofs about the knowledge topics: the store of TopicStore, for any     *)
(* number of sessions, names, topics and articles and any daily limit; and *)
(* the screen of KnowledgeScreen over it, for any bounds of what the user, *)
(* the other device and the faults do.                                     *)
(*                                                                         *)
(* The store (IInv).  What a transaction decided when it locked the user's *)
(* row still holds when it writes, because no other one writes in between  *)
(* (LocksSound); and a topic, whatever becomes of it, Follows what it was, *)
(* so that what the clients were once told of its revisions stays true     *)
(* (BasesSound, AnswersSound).                                             *)
(*                                                                         *)
(* The lists (ListSound).  Only the last request of a list counts, and it  *)
(* asks for what the list lacks; its answer has all that there is from     *)
(* where it begins to where the next page begins, and what comes later is  *)
(* above.                                                                  *)
(*                                                                         *)
(* The screen (WorkFits).  While a work is under way every call that it    *)
(* still owes to what the user has picked is to be made, is being made,    *)
(* has failed, or was granted; so what leaves the screen at its end was    *)
(* granted.                                                                *)
(*                                                                         *)
(* SInv is the three together.  Of every action it is shown that it Steps: *)
(* it is a step of the store or none and leaves a screen that fits what it *)
(* was told; and that it Keeps the user's work, unless the user takes it   *)
(* back.                                                                   *)
(***************************************************************************)
EXTENDS KnowledgeScreen, ListingProofs, FiniteSetTheorems, SequenceTheorems, TLAPS

-----------------------------------------------------------------------------

(* The store.                                                              *)

TablesSound ==
    /\ topics \in [TopicIds -> Topics] /\ issued \in 0 .. MaxTopic
    /\ links \subseteq Live \X articles
    /\ articles \subseteq 1 .. arrived /\ arrived \in 0 .. MaxArticle
    /\ today \subseteq articles
    /\ Live \subseteq 1 .. issued
    /\ \A t, u \in Live : Key[topics[t].name] = Key[topics[u].name] => t = u
    /\ DailyLimit > 0 => Cardinality(today) <= DailyLimit

CallsSound == calls \in [Sessions -> Calls]

(* What the transaction of op found, if it has something to write.         *)
Ready(op) ==
    /\ op.kind = "create" => ~Taken(op.name, 0)
    /\ op.kind \in {"update", "delete", "link", "unlink"} => op.base.id \in Live
    /\ op.kind = "update" => IsCurrent(op.base) /\ ~Taken(op.name, op.base.id)
    /\ op.kind \in {"link", "unlink"} => op.article \in articles
    /\ op.kind = "save" /\ DailyLimit > 0 => Cardinality(today) < DailyLimit

LocksSound ==
    \A s \in Sessions :
        calls[s].at = "locked" => /\ lock = s
                                  /\ calls[s].writes => Ready(calls[s].op)

BasesSound == \A s \in Sessions : Genuine(calls[s].op.base)

IInv == TablesSound /\ CallsSound /\ LocksSound /\ BasesSound

(* The topics that exist after a step existed before it, with a revision   *)
(* that is not newer and differs if the content does; or they are new.     *)
Follows ==
    /\ issued <= issued'
    /\ \A t \in Live' :
          \/ t > issued
          \/ /\ t \in Live
             /\ topics'[t].rev >= topics[t].rev
             /\ topics'[t].rev = topics[t].rev =>
                  topics'[t].name = topics[t].name /\ topics'[t].text = topics[t].text

-----------------------------------------------------------------------------
LEMMA Defaults == /\ AnyName \in Names /\ AnyText \in Texts
                  /\ NoTopic \in Topics /\ NoItem \in Items
                  /\ NoOp \in Ops /\ Idle \in Calls
<1>1. AnyName \in Names /\ AnyText \in Texts
  BY StoreAssumption DEF AnyName, AnyText
<1>2. 0 \in Nat /\ 0 \in 0 .. MaxTopic /\ 0 \in 0 .. MaxArticle
  BY StoreAssumption, SMT
<1>3. NoTopic \in Topics /\ NoItem \in Items
  BY <1>1, <1>2, Zenon DEF NoTopic, NoItem, Topics, Items
<1>4. NoOp \in Ops
  BY <1>1, <1>2, <1>3, Zenon DEF NoOp, Op, Ops, Kinds
<1>5. Idle \in Calls
  BY <1>3, <1>4, Zenon DEF Idle, Calls, Hows
<1>6. QED BY <1>1, <1>3, <1>4, <1>5

LEMMA SentTyped == ASSUME NEW op \in Ops PROVE Sent(op) \in Calls /\ Sent(op).op = op
                                              /\ Sent(op).at = "sent"
  BY Defaults, Zenon DEF Sent, Idle, Calls, Hows

LEMMA NoItemGenuine == ASSUME TablesSound PROVE Genuine(NoItem)
<1>1. NoItem.id = 0 /\ 0 <= issued /\ 0 \notin Live
  BY StoreAssumption, SMT DEF NoItem, TablesSound, Live, TopicIds
<1>2. QED BY <1>1 DEF Genuine

(* What a client was told of a topic stays true.                           *)
LEMMA GenuineStays ==
    ASSUME TablesSound, Follows, TablesSound'
    PROVE  \A item \in Items : Genuine(item) =>
             /\ item.id <= issued'
             /\ item.id \in Live' =>
                  /\ item.rev <= topics'[item.id].rev
                  /\ topics'[item.id].rev = item.rev =>
                       /\ topics'[item.id].name = item.name
                       /\ topics'[item.id].text = item.text
<1> SUFFICES ASSUME NEW item \in Items, Genuine(item)
             PROVE  /\ item.id <= issued'
                    /\ item.id \in Live' =>
                         /\ item.rev <= topics'[item.id].rev
                         /\ topics'[item.id].rev = item.rev =>
                              /\ topics'[item.id].name = item.name
                              /\ topics'[item.id].text = item.text
  OBVIOUS
<1>1. item.id \in Nat /\ item.rev \in Nat /\ issued \in Nat /\ issued' \in Nat
  BY StoreAssumption, SMT DEF Items, TablesSound
<1>2. item.id <= issued'
  BY <1>1, SMT DEF Genuine, Follows
<1>3. ASSUME item.id \in Live'
      PROVE  /\ item.rev <= topics'[item.id].rev
             /\ topics'[item.id].rev = item.rev =>
                  /\ topics'[item.id].name = item.name
                  /\ topics'[item.id].text = item.text
  <2>1. /\ item.id \in Live
        /\ topics'[item.id].rev >= topics[item.id].rev
        /\ topics'[item.id].rev = topics[item.id].rev =>
             /\ topics'[item.id].name = topics[item.id].name
             /\ topics'[item.id].text = topics[item.id].text
    BY <1>1, <1>3, SMT DEF Genuine, Follows
  <2>2. topics[item.id].rev \in Nat /\ topics'[item.id].rev \in Nat
    BY <1>3, <2>1, SMT DEF TablesSound, Live, Topics
  <2>3. QED BY <1>1, <2>1, <2>2, SMT DEF Genuine
<1>4. QED BY <1>2, <1>3

(* The answer releases the lock; nobody else holds it.                     *)
LEMMA AnswerSound ==
    ASSUME IInv, NEW s \in Sessions, calls[s].at = "locked",
           NEW how \in Hows, NEW item \in Items, Answer(s, how, item),
           TablesSound', Follows
    PROVE  IInv' /\ Follows
<1>1. CallsSound'
  <2>1. [calls[s] EXCEPT !.at = "done", !.how = how, !.writes = FALSE, !.item = item]
          \in Calls
    BY Zenon DEF IInv, CallsSound, Calls
  <2>2. QED BY <2>1, SMT DEF Answer, IInv, CallsSound
<1>2. \A r \in Sessions : calls'[r].op = calls[r].op
  BY SMT DEF Answer, IInv, CallsSound, Calls
<1>3. \A r \in Sessions : calls'[r].at # "locked"
  BY SMT DEF Answer, IInv, CallsSound, LocksSound, Calls
<1>4. LocksSound'
  BY <1>3 DEF LocksSound
<1>5. BasesSound'
  <2>1. SUFFICES ASSUME NEW r \in Sessions PROVE Genuine(calls[r].op.base)'
    BY DEF BasesSound
  <2>2. calls[r].op.base \in Items /\ Genuine(calls[r].op.base)
    BY SMT DEF IInv, CallsSound, BasesSound, Calls, Ops
  <2>3. calls'[r].op.base = calls[r].op.base
    BY <1>2
  <2>4. QED BY <2>2, <2>3, GenuineStays DEF IInv, Genuine
<1>6. QED BY <1>1, <1>4, <1>5 DEF IInv

LEMMA NothingChanges ==
    ASSUME TablesSound, UNCHANGED tables
    PROVE  TablesSound' /\ Follows
<1>1. Live' = Live
  BY DEF tables, Live
<1>2. TablesSound'
  BY <1>1 DEF tables, TablesSound
<1>3. issued <= issued' /\ \A t \in Live : topics'[t].rev >= topics[t].rev
  BY StoreAssumption, SMT DEF tables, TablesSound, Live, Topics
<1>4. Follows
  BY <1>1, <1>3 DEF tables, Follows
<1>5. QED BY <1>2, <1>4

(* What a session that writes knows.                                       *)
LEMMA WriterReady ==
    ASSUME IInv, NEW s \in Sessions, NEW kinds, Writing(s, kinds)
    PROVE  /\ calls[s].op \in Ops /\ calls[s].op.base \in Items
           /\ calls[s].at = "locked" /\ calls[s].op.kind \in kinds
           /\ Ready(calls[s].op)
  BY SMT DEF IInv, CallsSound, LocksSound, Writing, Calls, Ops

LEMMA MembershipReady ==
    ASSUME IInv, NEW s \in Sessions, SetMembership(s)
    PROVE  /\ calls[s].op \in Ops /\ calls[s].at = "locked"
           /\ calls[s].op.base.id \in Live /\ calls[s].op.article \in articles
<1>1. Writing(s, {"link", "unlink"})
  BY Zenon DEF SetMembership
<1>2. QED BY <1>1, WriterReady DEF Ready

LEMMA CreateKeeps ==
    ASSUME IInv, NEW s \in Sessions, CreateTopic(s) PROVE IInv' /\ Follows
<1> DEFINE op == calls[s].op
           new == [rev |-> 1, name |-> op.name, text |-> op.text]
           item == [id |-> issued + 1, rev |-> 1, name |-> op.name, text |-> op.text]
<1>1. /\ op \in Ops /\ calls[s].at = "locked" /\ ~Taken(op.name, 0)
      /\ issued < MaxTopic
  BY WriterReady, SMT DEF CreateTopic, Ready
<1>2. /\ issued' = issued + 1
      /\ topics' = [topics EXCEPT ![issued + 1] = new]
      /\ Answer(s, "ok", item)
      /\ UNCHANGED <<links, articles, arrived, today>>
  BY <1>1 DEF CreateTopic
<1>3. /\ issued \in Nat /\ issued + 1 \in TopicIds /\ issued + 1 \in 0 .. MaxTopic
      /\ issued + 1 \notin Live /\ 0 \notin Live
  BY <1>1, StoreAssumption, SMT DEF IInv, TablesSound, TopicIds, Live
<1>4. /\ new \in Topics /\ new.rev = 1 /\ new.name = op.name
      /\ item \in Items
  BY <1>1, <1>3, SMT DEF Topics, Items, Ops
<1> HIDE DEF new, item, op
<1>5. /\ topics' \in [TopicIds -> Topics]
      /\ \A t \in TopicIds : topics'[t] = IF t = issued + 1 THEN new ELSE topics[t]
  BY <1>2, <1>3, <1>4, SMT DEF IInv, TablesSound
<1>6. Live' = Live \cup {issued + 1}
  BY <1>3, <1>4, <1>5, SMT DEF Live
<1>7. ASSUME NEW t \in Live', NEW u \in Live', Key[topics'[t].name] = Key[topics'[u].name]
      PROVE  t = u
  <2>1. \A x \in Live : x \in TopicIds /\ topics'[x] = topics[x]
                        /\ Key[topics[x].name] # Key[op.name]
    BY <1>1, <1>3, <1>5 DEF Taken, Live
  <2>2. topics'[issued + 1].name = op.name
    BY <1>3, <1>4, <1>5
  <2>3. CASE t \in Live /\ u \in Live
    <3>1. \A x, y \in Live : Key[topics[x].name] = Key[topics[y].name] => x = y
      BY DEF IInv, TablesSound
    <3>2. QED BY <1>7, <2>1, <2>3, <3>1
  <2>4. CASE t \notin Live \/ u \notin Live
    BY <1>6, <1>7, <2>1, <2>2, <2>4
  <2>5. QED BY <2>3, <2>4
<1>8. TablesSound'
  <2>1. issued' \in 0 .. MaxTopic /\ Live' \subseteq 1 .. issued'
    <3>1. Live \subseteq 1 .. issued /\ issued' = issued + 1
      BY <1>2 DEF IInv, TablesSound
    <3>2. \A x \in 1 .. issued : x \in 1 .. (issued + 1)
      BY <1>3, SMT
    <3>3. issued + 1 \in 1 .. (issued + 1)
      BY <1>3, SMT
    <3>4. QED BY <1>3, <1>6, <3>1, <3>2, <3>3
  <2>2. links' \subseteq Live' \X articles'
    BY <1>2, <1>6, SMT DEF IInv, TablesSound
  <2>3. QED BY <1>2, <1>5, <1>7, <2>1, <2>2 DEF IInv, TablesSound
<1>9. Follows
  <2>1. \A t \in Live : topics'[t] = topics[t] /\ topics[t].rev \in Nat
    BY <1>3, <1>5, SMT DEF Live, IInv, TablesSound, Topics
  <2>2. QED BY <1>2, <1>3, <1>6, <2>1, SMT DEF Follows
<1>10. "ok" \in Hows
  BY DEF Hows
<1>11. QED BY <1>1, <1>2, <1>4, <1>8, <1>9, <1>10, AnswerSound

LEMMA DeleteKeeps ==
    ASSUME IInv, NEW s \in Sessions, DeleteTopic(s) PROVE IInv' /\ Follows
<1> DEFINE id == calls[s].op.base.id
<1>1. calls[s].at = "locked" /\ id \in Live
  BY WriterReady, SMT DEF DeleteTopic, Ready
<1>2. /\ topics' = [topics EXCEPT ![id] = NoTopic]
      /\ links' = {l \in links : l[1] # id}
      /\ Answer(s, "ok", NoItem)
      /\ UNCHANGED <<issued, articles, arrived, today>>
  BY DEF DeleteTopic
<1> HIDE DEF id
<1>3. NoTopic \in Topics /\ NoTopic.rev = 0
  BY Defaults DEF NoTopic
<1>4. /\ topics' \in [TopicIds -> Topics]
      /\ \A t \in TopicIds : topics'[t] = IF t = id THEN NoTopic ELSE topics[t]
  BY <1>1, <1>2, <1>3, SMT DEF IInv, TablesSound, Live
<1>5. Live' = Live \ {id}
  BY <1>1, <1>3, <1>4, SMT DEF Live
<1>6. \A t \in Live' : topics'[t] = topics[t] /\ t \in Live
  BY <1>4, <1>5 DEF Live
<1>7. TablesSound'
  <2>1. links' \subseteq Live' \X articles'
    BY <1>2, <1>5, SMT DEF IInv, TablesSound
  <2>2. Live' \subseteq 1 .. issued'
    BY <1>2, <1>6 DEF IInv, TablesSound
  <2>3. QED BY <1>2, <1>4, <1>6, <2>1, <2>2 DEF IInv, TablesSound
<1>8. Follows
  <2>1. issued <= issued' /\ \A t \in Live' : topics'[t].rev >= topics[t].rev
    BY <1>2, <1>6, StoreAssumption, SMT DEF IInv, TablesSound, Live, Topics
  <2>2. QED BY <1>6, <2>1 DEF Follows
<1>9. QED BY <1>1, <1>2, <1>7, <1>8, Defaults, AnswerSound DEF Hows

LEMMA UpdateKeeps ==
    ASSUME IInv, NEW s \in Sessions, UpdateTopic(s) PROVE IInv' /\ Follows
<1> DEFINE op == calls[s].op
           id == op.base.id
           new == [rev |-> topics[id].rev + 1, name |-> op.name, text |-> op.text]
           item == [id |-> id, rev |-> new.rev, name |-> new.name, text |-> new.text]
<1>1. /\ op \in Ops /\ op.base \in Items /\ calls[s].at = "locked"
      /\ id \in Live /\ IsCurrent(op.base) /\ ~Taken(op.name, id)
  BY WriterReady, SMT DEF UpdateTopic, Ready
<1>2. /\ topics' = [topics EXCEPT ![id] = new]
      /\ Answer(s, "ok", item)
      /\ UNCHANGED <<issued, links, articles, arrived, today>>
  BY <1>1 DEF UpdateTopic
<1>3. id \in TopicIds /\ id \in 0 .. MaxTopic /\ topics[id].rev \in Nat
  BY <1>1, SMT DEF IInv, TablesSound, Live, Topics, Items
<1>4. /\ new \in Topics /\ new.rev = topics[id].rev + 1 /\ new.name = op.name
      /\ item \in Items
  BY <1>1, <1>3, SMT DEF Topics, Items, Ops
<1> HIDE DEF new, item, id, op
<1>5. /\ topics' \in [TopicIds -> Topics]
      /\ \A t \in TopicIds : topics'[t] = IF t = id THEN new ELSE topics[t]
  BY <1>2, <1>3, <1>4, SMT DEF IInv, TablesSound
<1>6. Live' = Live
  BY <1>1, <1>3, <1>4, <1>5, SMT DEF Live
<1>7. ASSUME NEW t \in Live', NEW u \in Live', Key[topics'[t].name] = Key[topics'[u].name]
      PROVE  t = u
  <2>1. \A x \in Live \ {id} : x \in TopicIds /\ topics'[x] = topics[x]
                               /\ Key[topics[x].name] # Key[op.name]
    BY <1>1, <1>5 DEF Taken, Live
  <2>2. topics'[id].name = op.name
    BY <1>3, <1>4, <1>5
  <2>3. CASE t # id /\ u # id
    BY <1>6, <1>7, <2>1, <2>3 DEF IInv, TablesSound
  <2>4. CASE t = id \/ u = id
    BY <1>6, <1>7, <2>1, <2>2, <2>4
  <2>5. QED BY <2>3, <2>4
<1>8. TablesSound'
  BY <1>2, <1>5, <1>6, <1>7 DEF IInv, TablesSound
<1>9. Follows
  <2>1. \A t \in Live : /\ topics[t].rev \in Nat
                        /\ topics'[t] = IF t = id THEN new ELSE topics[t]
    BY <1>5, SMT DEF Live, IInv, TablesSound, Topics
  <2>2. \A t \in Live :
          /\ topics'[t].rev >= topics[t].rev
          /\ topics'[t].rev = topics[t].rev => topics'[t] = topics[t]
    BY <1>3, <1>4, <2>1, SMT
  <2>3. issued <= issued'
    BY <1>2, StoreAssumption, SMT DEF IInv, TablesSound
  <2>4. QED BY <1>6, <2>2, <2>3 DEF Follows
<1>10. "ok" \in Hows
  BY DEF Hows
<1>11. QED BY <1>1, <1>2, <1>4, <1>8, <1>9, <1>10, AnswerSound

(* Topics that keep their names and descriptions, some with a new revision.*)
LEMMA RevisionsKeep ==
    ASSUME TablesSound, NEW bumped \in SUBSET Live,
           topics' = [t \in TopicIds |-> IF t \in bumped
                                         THEN [topics[t] EXCEPT !.rev = @ + 1]
                                         ELSE topics[t]],
           issued' = issued
    PROVE  /\ topics' \in [TopicIds -> Topics] /\ Live' = Live /\ Follows
           /\ Live' \subseteq 1 .. issued'
           /\ \A t, u \in Live' : Key[topics'[t].name] = Key[topics'[u].name] => t = u
<1>1. \A t \in TopicIds : /\ topics[t] \in Topics /\ topics[t].rev \in Nat
                          /\ topics[t].rev + 1 \in Nat /\ topics[t].rev + 1 # 0
  BY SMT DEF TablesSound, Topics
<1>2. \A t \in TopicIds : [topics[t] EXCEPT !.rev = @ + 1] \in Topics
  BY <1>1, SMT DEF Topics
<1>3. topics' \in [TopicIds -> Topics]
  BY <1>1, <1>2
<1>4. \A t \in TopicIds :
        /\ topics'[t].name = topics[t].name /\ topics'[t].text = topics[t].text
        /\ topics'[t].rev = IF t \in bumped THEN topics[t].rev + 1 ELSE topics[t].rev
  BY <1>1, SMT DEF Topics
<1>5. Live' = Live
  BY <1>1, <1>4, SMT DEF Live
<1>6. Follows
  <2>1. \A t \in Live : topics'[t].rev >= topics[t].rev
    BY <1>1, <1>4, SMT DEF Live
  <2>2. issued <= issued'
    BY StoreAssumption, SMT DEF TablesSound
  <2>3. QED BY <1>4, <1>5, <2>1, <2>2 DEF Follows, Live
<1>7. Live' \subseteq 1 .. issued'
  BY <1>5 DEF TablesSound
<1>8. \A t, u \in Live' : Key[topics'[t].name] = Key[topics'[u].name] => t = u
  BY <1>4, <1>5 DEF TablesSound, Live
<1>9. QED BY <1>3, <1>5, <1>6, <1>7, <1>8

LEMMA TopicDtoTyped ==
    ASSUME TablesSound, NEW t \in Live PROVE TopicDto(t) \in Items
<1>1. t \in 0 .. MaxTopic /\ topics[t] \in Topics
  BY StoreAssumption, SMT DEF TablesSound, Live, TopicIds
<1>2. QED BY <1>1, SMT DEF TopicDto, Topics, Items

LEMMA Renewed ==
    ASSUME NEW b \in Items, NEW item, item = [b EXCEPT !.rev = @ + 1]
    PROVE  /\ item \in Items /\ item.id = b.id /\ item.rev = b.rev + 1
           /\ item.name = b.name /\ item.text = b.text
  BY SMT DEF Items

LEMMA MembershipKeeps ==
    ASSUME IInv, NEW s \in Sessions, SetMembership(s) PROVE IInv' /\ Follows
<1> DEFINE op == calls[s].op
           id == op.base.id
           item == [TopicDto(id) EXCEPT !.rev = @ + 1]
<1>1. /\ op \in Ops /\ calls[s].at = "locked"
      /\ id \in Live /\ op.article \in articles
  BY MembershipReady
<1>2. /\ links' = IF op.kind = "link" THEN links \cup {<<id, op.article>>}
                  ELSE links \ {<<id, op.article>>}
      /\ topics' = [topics EXCEPT ![id].rev = @ + 1]
      /\ Answer(s, "ok", item)
      /\ UNCHANGED <<issued, articles, arrived, today>>
  BY <1>1, Zenon DEF SetMembership
<1>3. id \in TopicIds /\ id \in 0 .. MaxTopic /\ topics[id] \in Topics
  BY <1>1, StoreAssumption, SMT DEF IInv, TablesSound, Live, TopicIds
<1>4. item \in Items
  <2>1. TopicDto(id) \in Items
    BY <1>1, TopicDtoTyped DEF IInv
  <2>2. QED BY <2>1, SMT DEF Items
<1> HIDE DEF item, id, op
<1>5. topics' = [t \in TopicIds |-> IF t \in {id} THEN [topics[t] EXCEPT !.rev = @ + 1]
                                    ELSE topics[t]]
  <2>1. topics = [t \in TopicIds |-> topics[t]]
    BY DEF IInv, TablesSound
  <2>2. [topics EXCEPT ![id].rev = @ + 1]
          = [t \in TopicIds |-> IF t = id THEN [topics[t] EXCEPT !.rev = @ + 1]
                                ELSE topics[t]]
    BY <2>1, Zenon
  <2>3. QED BY <1>2, <2>2
<1>6. {id} \in SUBSET Live
  BY <1>1
<1>7. /\ topics' \in [TopicIds -> Topics] /\ Live' = Live /\ Follows
      /\ Live' \subseteq 1 .. issued'
      /\ \A t, u \in Live' : Key[topics'[t].name] = Key[topics'[u].name] => t = u
  BY <1>2, <1>5, <1>6, RevisionsKeep DEF IInv
<1>8. links' \subseteq Live' \X articles'
  BY <1>1, <1>2, <1>7, SMT DEF IInv, TablesSound
<1>9. TablesSound'
  BY <1>2, <1>7, <1>8 DEF IInv, TablesSound
<1>10. "ok" \in Hows
  BY DEF Hows
<1>11. QED BY <1>1, <1>2, <1>4, <1>7, <1>9, <1>10, AnswerSound

LEMMA TodayFinite ==
    ASSUME TablesSound
    PROVE  /\ IsFiniteSet(articles) /\ IsFiniteSet(today)
           /\ Cardinality(today) \in Nat
<1>1. arrived \in Nat
  BY StoreAssumption, SMT DEF TablesSound
<1>2. IsFiniteSet(1 .. arrived)
  BY <1>1, FS_Interval
<1>3. IsFiniteSet(articles)
  BY <1>2, FS_Subset DEF TablesSound
<1>4. IsFiniteSet(today)
  BY <1>3, FS_Subset DEF TablesSound
<1>5. QED BY <1>3, <1>4, FS_CardinalityType

(* The topics do not change, the articles may.                             *)
LEMMA SameTopics ==
    ASSUME TablesSound, UNCHANGED <<topics, issued>>
    PROVE  Live' = Live /\ Follows
<1>1. Live' = Live
  BY DEF Live
<1>2. issued <= issued' /\ \A t \in Live : topics'[t].rev >= topics[t].rev
  BY StoreAssumption, SMT DEF TablesSound, Live, Topics
<1>3. QED BY <1>1, <1>2 DEF Follows

LEMMA SaveKeeps ==
    ASSUME IInv, NEW s \in Sessions, SaveArticle(s) PROVE IInv' /\ Follows
<1>1. /\ calls[s].at = "locked" /\ arrived < MaxArticle
      /\ DailyLimit > 0 => Cardinality(today) < DailyLimit
  BY WriterReady, SMT DEF SaveArticle, Ready
<1>2. /\ arrived' = arrived + 1
      /\ articles' = articles \cup {arrived + 1}
      /\ today' = today \cup {arrived + 1}
      /\ Answer(s, "ok", NoItem)
      /\ UNCHANGED <<topics, issued, links>>
  BY DEF SaveArticle
<1>3. Live' = Live /\ Follows
  BY <1>2, SameTopics DEF IInv
<1>4. arrived' \in 0 .. MaxArticle /\ articles' \subseteq 1 .. arrived'
  BY <1>1, <1>2, StoreAssumption, SMT DEF IInv, TablesSound
<1>5. links' \subseteq Live' \X articles' /\ today' \subseteq articles'
  BY <1>2, <1>3, SMT DEF IInv, TablesSound
<1>6. DailyLimit > 0 => Cardinality(today') <= DailyLimit
  <2>1. IsFiniteSet(today) /\ Cardinality(today) \in Nat
    BY TodayFinite DEF IInv
  <2>2. Cardinality(today') <= Cardinality(today) + 1
    <3>1. Cardinality(today') = IF arrived + 1 \in today THEN Cardinality(today)
                                ELSE Cardinality(today) + 1
      BY <1>2, <2>1, FS_AddElement
    <3>2. QED BY <2>1, <3>1, SMT
  <2>3. Cardinality(today') \in Nat
    BY <1>2, <2>1, FS_AddElement, SMT
  <2>4. QED BY <1>1, <2>1, <2>2, <2>3, StoreAssumption, SMT
<1>7. TablesSound'
  BY <1>2, <1>3, <1>4, <1>5, <1>6 DEF IInv, TablesSound
<1>8. QED BY <1>1, <1>2, <1>3, <1>7, Defaults, AnswerSound DEF Hows

LEMMA RemoveKeeps ==
    ASSUME IInv, NEW s \in Sessions, RemoveArticle(s) PROVE IInv' /\ Follows
<1> DEFINE a == calls[s].op.article
           bumped == {t \in TopicIds : <<t, a>> \in links}
<1>1. calls[s].at = "locked"
  BY WriterReady DEF RemoveArticle
<1>2. /\ topics' = [t \in TopicIds |-> IF t \in bumped
                                       THEN [topics[t] EXCEPT !.rev = @ + 1]
                                       ELSE topics[t]]
      /\ links' = {l \in links : l[2] # a}
      /\ articles' = articles \ {a}
      /\ today' = today \ {a}
      /\ Answer(s, "ok", NoItem)
      /\ UNCHANGED <<issued, arrived>>
  BY DEF RemoveArticle
<1> HIDE DEF a
<1>3. bumped \in SUBSET Live
  BY SMT DEF IInv, TablesSound
<1> HIDE DEF bumped
<1>4. /\ topics' \in [TopicIds -> Topics] /\ Live' = Live /\ Follows
      /\ Live' \subseteq 1 .. issued'
      /\ \A t, u \in Live' : Key[topics'[t].name] = Key[topics'[u].name] => t = u
  BY <1>2, <1>3, RevisionsKeep DEF IInv
<1>5. /\ links' \subseteq Live' \X articles' /\ today' \subseteq articles'
      /\ articles' \subseteq 1 .. arrived'
  BY <1>2, <1>4, SMT DEF IInv, TablesSound
<1>6. DailyLimit > 0 => Cardinality(today') <= DailyLimit
  <2>1. /\ IsFiniteSet(today) /\ Cardinality(today) \in Nat
        /\ today' \subseteq today
    BY <1>2, TodayFinite DEF IInv
  <2>2. Cardinality(today') \in Nat /\ Cardinality(today') <= Cardinality(today)
    BY <2>1, FS_Subset, FS_CardinalityType
  <2>3. QED BY <2>1, <2>2, StoreAssumption, SMT DEF IInv, TablesSound
<1>7. TablesSound'
  BY <1>2, <1>4, <1>5, <1>6 DEF IInv, TablesSound
<1>8. QED BY <1>1, <1>2, <1>4, <1>7, Defaults, AnswerSound DEF Hows

LEMMA EmptyCommitKeeps ==
    ASSUME IInv, NEW s \in Sessions, CommitNothing(s) PROVE IInv' /\ Follows
<1> DEFINE item == IF calls[s].how = "ok" /\ calls[s].op.base.id \in Live
                   THEN TopicDto(calls[s].op.base.id) ELSE NoItem
<1>1. item \in Items
  BY Defaults, TopicDtoTyped DEF IInv
<1>2. calls[s].how \in Hows
  BY DEF IInv, CallsSound, Calls
<1>3. /\ calls[s].at = "locked" /\ Answer(s, calls[s].how, item)
      /\ UNCHANGED tables
  BY DEF CommitNothing
<1> HIDE DEF item
<1>4. QED BY <1>1, <1>2, <1>3, NothingChanges, AnswerSound DEF IInv

LEMMA RollBackKeeps ==
    ASSUME IInv, NEW s \in Sessions, RollBack(s) PROVE IInv' /\ Follows
<1>1. /\ calls[s].at = "locked" /\ Answer(s, "error", NoItem)
      /\ UNCHANGED tables
  BY DEF RollBack
<1>2. "error" \in Hows /\ NoItem \in Items
  BY Defaults DEF Hows
<1>3. QED BY <1>1, <1>2, NothingChanges, AnswerSound DEF IInv

(* While the tables stay, what is true of them stays true.                 *)
LEMMA TablesStay ==
    ASSUME UNCHANGED tables
    PROVE  /\ TablesSound <=> TablesSound'
           /\ \A op : Ready(op) <=>
                /\ op.kind = "create" => ~Taken(op.name, 0)'
                /\ op.kind \in {"update", "delete", "link", "unlink"} =>
                     op.base.id \in Live'
                /\ op.kind = "update" => /\ topics'[op.base.id].rev = op.base.rev
                                         /\ ~Taken(op.name, op.base.id)'
                /\ op.kind \in {"link", "unlink"} => op.article \in articles'
                /\ op.kind = "save" /\ DailyLimit > 0 =>
                     Cardinality(today') < DailyLimit
           /\ \A item : Genuine(item) <=>
                /\ item.id <= issued'
                /\ item.id \in Live' =>
                     /\ item.rev <= topics'[item.id].rev
                     /\ topics'[item.id].rev = item.rev =>
                          /\ topics'[item.id].name = item.name
                          /\ topics'[item.id].text = item.text
<1>1. Live' = Live
  BY DEF tables, Live
<1>2. QED BY <1>1 DEF tables, TablesSound, Ready, Taken, IsCurrent, Genuine

(* What a session's call must satisfy.                                     *)
CallSound(c, s) ==
    /\ c \in Calls
    /\ c.at = "locked" => lock = s /\ (c.writes => Ready(c.op))
    /\ Genuine(c.op.base)

LEMMA CallByCall ==
    /\ IInv <=> /\ TablesSound
                /\ calls = [s \in Sessions |-> calls[s]]
                /\ \A s \in Sessions : CallSound(calls[s], s)
    /\ (IInv' <=> /\ TablesSound'
                  /\ calls' = [s \in Sessions |-> calls'[s]]
                  /\ \A s \in Sessions : CallSound(calls[s], s)')
<1>1. IInv <=> /\ TablesSound
               /\ calls = [s \in Sessions |-> calls[s]]
               /\ \A s \in Sessions : CallSound(calls[s], s)
  BY DEF IInv, CallSound, CallsSound, LocksSound, BasesSound
<1>2. IInv' <=> /\ TablesSound'
                /\ calls' = [s \in Sessions |-> calls'[s]]
                /\ \A s \in Sessions : CallSound(calls[s], s)'
  BY DEF IInv, CallSound, CallsSound, LocksSound, BasesSound
<1>3. QED BY <1>1, <1>2

(* A step that changes the call of s, and no table.                        *)
LEMMA OneCallKeeps ==
    ASSUME IInv, UNCHANGED tables, NEW s \in Sessions, NEW c \in Calls,
           calls' = [calls EXCEPT ![s] = c],
           \A r \in Sessions \ {s} : calls[r].at = "locked" => lock' = r,
           c.at = "locked" => lock' = s /\ (c.writes => Ready(c.op)),
           Genuine(c.op.base)
    PROVE  IInv' /\ Follows
<1>1. TablesSound' /\ Follows
  BY NothingChanges DEF IInv
<1>2. /\ calls' = [r \in Sessions |-> calls'[r]]
      /\ \A r \in Sessions : calls'[r] = IF r = s THEN c ELSE calls[r]
  BY DEF IInv, CallsSound
<1>3. ASSUME NEW r \in Sessions PROVE CallSound(calls[r], r)'
  <2>1. /\ calls'[r] \in Calls
        /\ calls'[r].at = "locked" =>
             lock' = r /\ (calls'[r].writes => Ready(calls'[r].op))
        /\ Genuine(calls'[r].op.base)
    BY <1>2 DEF IInv, CallsSound, LocksSound, BasesSound
  <2>2. calls'[r].at = "locked" /\ calls'[r].writes => Ready(calls[r].op)'
    BY <2>1, TablesStay DEF Ready, IsCurrent
  <2>3. Genuine(calls[r].op.base)'
    BY <2>1, TablesStay DEF Genuine
  <2>4. QED BY <2>1, <2>2, <2>3 DEF CallSound
<1>4. QED BY <1>1, <1>2, <1>3, CallByCall

LEMMA VerdictSound ==
    ASSUME TablesSound, NEW op \in Ops
    PROVE  /\ Verdict(op) \in Hows
           /\ Verdict(op) = "ok" /\ Writes(op) => Ready(op)
<1>1. op.kind \in Kinds
  BY DEF Ops
<1>2. CASE op.kind = "create"
  BY <1>2 DEF Verdict, Hows, Ready
<1>3. CASE op.kind = "save"
  <2>1. Verdict(op) = IF op.article \notin articles /\ LimitReached THEN "limit"
                      ELSE "ok"
    BY <1>3 DEF Verdict
  <2>2. Writes(op) <=> op.article \notin articles
    BY <1>3 DEF Writes
  <2>3. Cardinality(today) \in Nat /\ DailyLimit \in Nat
    BY TodayFinite, StoreAssumption
  <2>4. QED BY <1>3, <2>1, <2>2, <2>3, SMT DEF Hows, Ready, LimitReached
<1>4. CASE op.kind = "remove"
  BY <1>4 DEF Verdict, Hows, Ready
<1>5. CASE op.kind \in {"delete", "get"}
  BY <1>5 DEF Verdict, Hows, Ready
<1>6. CASE op.kind \in {"link", "unlink"}
  BY <1>6 DEF Verdict, Hows, Ready
<1>7. CASE op.kind = "update"
  BY <1>7 DEF Verdict, Hows, Ready
<1>8. QED BY <1>1, <1>2, <1>3, <1>4, <1>5, <1>6, <1>7 DEF Kinds

LEMMA LockKeeps ==
    ASSUME IInv, NEW s \in Sessions, Lock(s) PROVE IInv' /\ Follows
<1> DEFINE op == calls[s].op
           c == [calls[s] EXCEPT !.at = "locked", !.how = Verdict(op),
                                 !.writes = Verdict(op) = "ok" /\ Writes(op)]
<1>1. /\ calls[s] \in Calls /\ op \in Ops /\ Genuine(op.base)
      /\ lock = NoOne /\ lock' = s
      /\ UNCHANGED tables
  BY DEF IInv, CallsSound, BasesSound, Calls, Lock, MayLock
<1>2. Verdict(op) \in Hows /\ (Verdict(op) = "ok" /\ Writes(op) => Ready(op))
  BY <1>1, VerdictSound DEF IInv
<1>3. (Verdict(op) = "ok" /\ Writes(op)) \in BOOLEAN
  OBVIOUS
<1>4. /\ calls' = [calls EXCEPT ![s] = c]
  BY Zenon DEF Lock, IInv, CallsSound
<1> HIDE DEF op
<1>5. /\ c \in Calls /\ c.at = "locked" /\ c.op = calls[s].op
      /\ c.writes => Ready(c.op)
  <2> DEFINE w == Verdict(op) = "ok" /\ Writes(op)
  <2>1. c \in Calls
    BY <1>1, <1>2, <1>3, Zenon DEF Calls
  <2> HIDE DEF w
  <2>2. c.at = "locked" /\ c.op = calls[s].op /\ c.writes = w
    <3>1. /\ c = [calls[s] EXCEPT !.at = "locked", !.how = Verdict(op), !.writes = w]
          /\ calls[s] \in [at : {"idle", "sent", "locked", "done"}, op : Ops,
                           writes : BOOLEAN, how : Hows, item : Items]
      BY <1>1 DEF w, Calls
    <3> HIDE DEF c
    <3>2. QED BY <3>1, SMT
  <2>3. w => Ready(calls[s].op)
    BY <1>2 DEF w, op
  <2>4. QED BY <2>1, <2>2, <2>3
<1> HIDE DEF c
<1>6. \A r \in Sessions : calls[r].at # "locked"
  BY <1>1, StoreAssumption DEF IInv, LocksSound
<1>7. QED BY <1>1, <1>4, <1>5, <1>6, OneCallKeeps DEF op

(* What a client turns to.                                                 *)
LEMMA NewCallSound ==
    ASSUME TablesSound, NEW c \in NewCalls
    PROVE  c \in Calls /\ c.at \in {"idle", "sent"} /\ Genuine(c.op.base)
<1>1. Idle \in Calls /\ Idle.at = "idle" /\ Genuine(Idle.op.base)
  BY Defaults, NoItemGenuine DEF Idle, NoOp, Op
<1>2. CASE c = Idle
  BY <1>1, <1>2
<1>3. CASE c # Idle
  <2>1. PICK op \in Ops : Genuine(op.base) /\ c = Sent(op)
    BY <1>3 DEF NewCalls
  <2>2. QED BY <2>1, SentTyped
<1>4. QED BY <1>2, <1>3

LEMMA SendKeeps ==
    ASSUME IInv, NEW s \in Sessions, Send(s) PROVE IInv' /\ Follows
<1>1. PICK c \in NewCalls : calls' = [calls EXCEPT ![s] = c]
  BY DEF Send
<1>2. UNCHANGED <<tables, lock>> /\ UNCHANGED tables
  BY DEF Send
<1>3. c \in Calls /\ c.at # "locked" /\ Genuine(c.op.base)
  BY NewCallSound DEF IInv
<1>4. \A r \in Sessions \ {s} : calls[r].at = "locked" => lock' = r
  BY <1>2 DEF IInv, LocksSound
<1>5. QED BY <1>1, <1>2, <1>3, <1>4, OneCallKeeps

LEMMA GetKeeps ==
    ASSUME IInv, NEW s \in Sessions, GetTopic(s) PROVE IInv' /\ Follows
<1> DEFINE id == calls[s].op.base.id
           how == IF id \in Live THEN "ok" ELSE "missing"
           item == IF id \in Live THEN TopicDto(id) ELSE NoItem
           c == [calls[s] EXCEPT !.at = "done", !.how = how, !.item = item]
<1>1. /\ calls[s] \in Calls /\ Genuine(calls[s].op.base)
      /\ UNCHANGED tables /\ lock' = lock
  BY DEF IInv, CallsSound, BasesSound, GetTopic
<1>2. item \in Items /\ how \in Hows
  BY Defaults, TopicDtoTyped DEF IInv, Hows
<1>3. calls' = [calls EXCEPT ![s] = c]
  BY Zenon DEF GetTopic, IInv, CallsSound
<1> HIDE DEF item, how
<1>4. c \in Calls /\ c.at = "done" /\ c.op = calls[s].op
  <2>1. c \in Calls
    BY <1>1, <1>2, Zenon DEF Calls
  <2>2. calls[s] \in [at : {"idle", "sent", "locked", "done"}, op : Ops,
                     writes : BOOLEAN, how : Hows, item : Items]
    BY <1>1 DEF Calls
  <2>3. QED BY <2>1, <2>2, SMT
<1> HIDE DEF c
<1>5. \A r \in Sessions \ {s} : calls[r].at = "locked" => lock' = r
  BY <1>1 DEF IInv, LocksSound
<1>6. QED BY <1>1, <1>3, <1>4, <1>5, OneCallKeeps

LEMMA GiveUpKeeps ==
    ASSUME IInv, NEW s \in Sessions, NEW r \in Sessions, GiveUp(s, r)
    PROVE  IInv' /\ Follows
<1>1. /\ calls[s].at \in {"sent", "locked"} /\ calls[r].at \in {"idle", "done"}
      /\ lock' = IF lock = s THEN r ELSE lock
      /\ UNCHANGED tables
  BY DEF GiveUp
<1> PICK c \in NewCalls : calls' = [calls EXCEPT ![r] = calls[s], ![s] = c]
  BY DEF GiveUp
<1>2. TablesSound' /\ Follows /\ s # r
  BY <1>1, NothingChanges DEF IInv
<1>3. /\ calls' = [x \in Sessions |-> calls'[x]]
      /\ \A x \in Sessions : calls'[x] = IF x = s THEN c
                                       ELSE IF x = r THEN calls[s] ELSE calls[x]
  BY <1>1, <1>2 DEF IInv, CallsSound
<1>4. c \in Calls /\ c.at # "locked" /\ Genuine(c.op.base)
  BY NewCallSound DEF IInv
<1>5. ASSUME NEW x \in Sessions PROVE CallSound(calls[x], x)'
  <2>1. /\ calls'[x] \in Calls
        /\ calls'[x].at = "locked" =>
             lock' = x /\ (calls'[x].writes => Ready(calls'[x].op))
        /\ Genuine(calls'[x].op.base)
    <3>1. CASE x = s
      BY <1>3, <1>4, <3>1
    <3>2. CASE x = r /\ x # s
      BY <1>1, <1>3, <3>2 DEF IInv, CallsSound, LocksSound, BasesSound
    <3>3. CASE x # r /\ x # s
      BY <1>1, <1>3, <3>3 DEF IInv, CallsSound, LocksSound, BasesSound
    <3>4. QED BY <3>1, <3>2, <3>3
  <2>2. calls'[x].at = "locked" /\ calls'[x].writes => Ready(calls[x].op)'
    BY <1>1, <2>1, TablesStay DEF Ready, IsCurrent
  <2>3. Genuine(calls[x].op.base)'
    BY <1>1, <2>1, TablesStay DEF Genuine
  <2>4. QED BY <2>1, <2>2, <2>3 DEF CallSound
<1>6. QED BY <1>2, <1>3, <1>5, CallByCall

LEMMA NewDayKeeps == ASSUME IInv, NewDay PROVE IInv' /\ Follows
<1>1. today' = {} /\ UNCHANGED <<topics, issued, links, articles, arrived, lock, calls>>
  BY DEF NewDay
<1>2. Cardinality(today') = 0 /\ Cardinality(today) \in Nat
  BY <1>1, FS_EmptySet, TodayFinite DEF IInv
<1>3. Live' = Live /\ Follows
  BY <1>1, SameTopics DEF IInv
<1>4. TablesSound'
  BY <1>1, <1>2, <1>3, StoreAssumption, SMT DEF IInv, TablesSound
<1>5. ASSUME NEW s \in Sessions PROVE CallSound(calls[s], s)'
  <2>1. calls[s] \in Calls /\ Genuine(calls[s].op.base)
    BY DEF IInv, CallsSound, BasesSound
  <2>2. Genuine(calls[s].op.base)'
    BY <1>1, <1>3, <2>1 DEF Genuine
  <2>3. calls[s].at = "locked" /\ calls[s].writes => Ready(calls[s].op)
    BY DEF IInv, LocksSound
  <2>4. Ready(calls[s].op) => Ready(calls[s].op)'
    BY <1>1, <1>2, <1>3, StoreAssumption, SMT DEF Ready, Taken, IsCurrent
  <2>5. calls[s].at = "locked" => lock = s
    BY DEF IInv, LocksSound
  <2>6. QED BY <1>1, <2>1, <2>2, <2>3, <2>4, <2>5 DEF CallSound
<1>6. calls' = [s \in Sessions |-> calls'[s]]
  BY <1>1 DEF IInv, CallsSound
<1>7. QED BY <1>3, <1>4, <1>5, <1>6, CallByCall

LEMMA InitSound == ASSUME StoreInit PROVE IInv
<1>1. TablesSound /\ CallsSound
  BY DEF StoreInit, StoreIsSound, TablesSound, CallsSound
<1>2. \A s \in Sessions : calls[s].at # "locked" /\ Genuine(calls[s].op.base)
  BY <1>1, NewCallSound DEF StoreInit
<1>3. QED BY <1>1, <1>2 DEF IInv, LocksSound, BasesSound

(* A store without a row is sound.                                         *)
LEMMA EmptyStore ==
    ASSUME topics = [t \in TopicIds |-> NoTopic], issued = 0, links = {},
           articles = {}, arrived = 0, today = {},
           lock = NoOne, calls = [s \in Sessions |-> Idle]
    PROVE  StoreInit
<1>1. Live = {}
  BY SMT DEF Live, NoTopic
<1>2. Cardinality(today) = 0
  BY FS_EmptySet
<1>3. StoreIsSound
  BY <1>1, <1>2, Defaults, StoreAssumption, SMT DEF StoreIsSound
<1>4. QED BY <1>3 DEF StoreInit, NewCalls

LEMMA StepSound == ASSUME IInv, [StoreNext]_store PROVE IInv' /\ Follows
<1>1. ASSUME NEW s \in Sessions, Commit(s) PROVE IInv' /\ Follows
  BY <1>1, CreateKeeps, UpdateKeeps, DeleteKeeps, MembershipKeeps, SaveKeeps,
     RemoveKeeps, EmptyCommitKeeps DEF Commit
<1>2. ASSUME NEW s \in Sessions, Send(s) \/ Execute(s) \/ RollBack(s) PROVE IInv' /\ Follows
  BY <1>1, <1>2, SendKeeps, LockKeeps, GetKeeps, RollBackKeeps DEF Execute
<1>3. ASSUME NEW s \in Sessions, NEW r \in Sessions, GiveUp(s, r) PROVE IInv' /\ Follows
  BY <1>3, GiveUpKeeps
<1>4. ASSUME NewDay PROVE IInv' /\ Follows
  BY <1>4, NewDayKeeps
<1>5. ASSUME UNCHANGED store PROVE IInv' /\ Follows
  <2>1. UNCHANGED tables /\ lock' = lock /\ calls' = calls
    BY <1>5 DEF store, tables
  <2>2. TablesSound' /\ Follows
    BY <2>1, NothingChanges DEF IInv
  <2>3. ASSUME NEW s \in Sessions PROVE CallSound(calls[s], s)'
    <3>1. CallSound(calls[s], s)
      BY CallByCall
    <3>2. Ready(calls[s].op) => Ready(calls[s].op)'
      BY <2>1, TablesStay DEF Ready, IsCurrent
    <3>3. Genuine(calls[s].op.base) => Genuine(calls[s].op.base)'
      BY <2>1, TablesStay DEF Genuine
    <3>4. QED BY <2>1, <3>1, <3>2, <3>3 DEF CallSound
  <2>4. calls' = [s \in Sessions |-> calls'[s]]
    BY <2>1 DEF IInv, CallsSound
  <2>5. QED BY <2>2, <2>3, <2>4, CallByCall
<1>6. QED BY <1>2, <1>3, <1>4, <1>5 DEF StoreNext

-----------------------------------------------------------------------------
(* IInv is an invariant of the store, whatever its clients send.           *)
THEOREM StoreInductive == StoreSpec => []IInv
<1>1. StoreInit => IInv
  BY InitSound
<1>2. IInv /\ [StoreNext]_store => IInv'
  BY StepSound
<1>3. QED BY <1>1, <1>2, PTL DEF StoreSpec

(* However the transactions of any number of sessions interleave, fail or  *)
(* outlive their callers, two topics never share a key, memberships have   *)
(* both their rows, and the daily limit holds for concurrent saves.        *)
THEOREM StoreCorrect == StoreSpec => []StoreIsSound
<1>1. IInv => StoreIsSound
  BY DEF IInv, TablesSound, CallsSound, StoreIsSound
<1>2. QED BY <1>1, StoreInductive, PTL

(* The content of a topic that exists before and after a step, and changes *)
(* in it, changes by an update of what its client had seen.                *)
ContentChange ==
    \A t \in TopicIds :
        /\ topics[t].rev # 0 /\ topics'[t].rev # 0
        /\ <<topics[t].name, topics[t].text>> # <<topics'[t].name, topics'[t].text>>
        => \E s \in Sessions :
             /\ calls[s].op.kind = "update" /\ calls[s].op.base.id = t
             /\ calls'[s] # calls[s]
             /\ calls[s].op.base.name = topics[t].name
             /\ calls[s].op.base.text = topics[t].text

LEMMA CommitReplacesWhatWasSeen ==
    ASSUME IInv, NEW s \in Sessions, Commit(s) PROVE ContentChange
<1>0. topics \in [TopicIds -> Topics]
  BY DEF IInv, TablesSound
<1>1. CASE CreateTopic(s)
  <2>1. ~Taken(calls[s].op.name, 0)
    BY <1>1, WriterReady, SMT DEF CreateTopic, Ready
  <2>2. \A t \in TopicIds : t # issued + 1 => topics'[t] = topics[t]
    BY <1>0, <1>1, <2>1 DEF CreateTopic
  <2>3. issued + 1 \in TopicIds => topics[issued + 1].rev = 0
    BY StoreAssumption, SMT DEF IInv, TablesSound, Live
  <2>4. QED BY <2>2, <2>3 DEF ContentChange
<1>2. CASE UpdateTopic(s)
  <2> DEFINE base == calls[s].op.base
  <2>1. /\ calls[s].at = "locked" /\ calls[s].op.kind = "update"
        /\ base.id \in Live /\ IsCurrent(base) /\ Genuine(base)
        /\ ~Taken(calls[s].op.name, base.id)
    BY <1>2, WriterReady, SMT DEF UpdateTopic, Ready, IInv, BasesSound
  <2>2. base.name = topics[base.id].name /\ base.text = topics[base.id].text
    BY <2>1 DEF Genuine, IsCurrent
  <2>3. \A t \in TopicIds : t # base.id => topics'[t] = topics[t]
    BY <1>0, <1>2, <2>1 DEF UpdateTopic
  <2>4. calls'[s] # calls[s]
    <3>1. \E how, item : Answer(s, how, item)
      BY <1>2, <2>1 DEF UpdateTopic
    <3>2. calls'[s].at = "done"
      BY <3>1, SMT DEF Answer, IInv, CallsSound, Calls
    <3>3. QED BY <2>1, <3>2
  <2>5. QED BY <2>1, <2>2, <2>3, <2>4 DEF ContentChange
<1>3. CASE DeleteTopic(s)
  <2>1. topics' = [topics EXCEPT ![calls[s].op.base.id] = NoTopic]
    BY <1>3 DEF DeleteTopic
  <2>2. NoTopic.rev = 0
    BY DEF NoTopic
  <2>3. \A t \in TopicIds : topics'[t].rev # 0 => topics'[t] = topics[t]
    BY <1>0, <2>1, <2>2
  <2>4. QED BY <2>3 DEF ContentChange
<1>4. CASE SetMembership(s)
  <2> DEFINE id == calls[s].op.base.id
  <2>1. id \in Live /\ calls[s].op.article \in articles
    BY <1>4, MembershipReady
  <2>2. topics' = [topics EXCEPT ![id].rev = @ + 1]
    BY <1>4, <2>1, Zenon DEF SetMembership
  <2> HIDE DEF id
  <2>3. \A t \in TopicIds : topics'[t].name = topics[t].name
                            /\ topics'[t].text = topics[t].text
    BY <1>0, <2>2, SMT DEF Topics
  <2>4. QED BY <2>3 DEF ContentChange
<1>5. CASE SaveArticle(s) \/ CommitNothing(s)
  BY <1>5 DEF SaveArticle, CommitNothing, tables, ContentChange
<1>6. CASE RemoveArticle(s)
  <2> DEFINE bumped == {t \in TopicIds : <<t, calls[s].op.article>> \in links}
  <2>1. topics' = [t \in TopicIds |-> IF t \in bumped
                                      THEN [topics[t] EXCEPT !.rev = @ + 1]
                                      ELSE topics[t]]
    BY <1>6 DEF RemoveArticle
  <2> HIDE DEF bumped
  <2>2. \A t \in TopicIds : topics'[t].name = topics[t].name
                            /\ topics'[t].text = topics[t].text
    BY <1>0, <2>1, SMT DEF Topics
  <2>3. QED BY <2>2 DEF ContentChange
<1>7. QED BY <1>1, <1>2, <1>3, <1>4, <1>5, <1>6 DEF Commit

(* No update is lost: a topic's name and description are replaced only by  *)
(* the update of a client whose editor showed what is replaced.            *)
THEOREM EditCorrect == StoreSpec => EditsReplaceWhatWasSeen
<1>1. IInv /\ [StoreNext]_store => [ContentChange]_store
  <2> SUFFICES ASSUME IInv, StoreNext PROVE ContentChange
    OBVIOUS
  <2>1. ASSUME NEW s \in Sessions, Send(s) \/ Execute(s) \/ RollBack(s)
        PROVE  ContentChange
    BY <2>1, CommitReplacesWhatWasSeen
       DEF Execute, Send, Lock, GetTopic, RollBack, tables, ContentChange
  <2>2. ASSUME NEW s \in Sessions, NEW r \in Sessions, GiveUp(s, r)
        PROVE  ContentChange
    BY <2>2 DEF GiveUp, tables, ContentChange
  <2>3. ASSUME NewDay PROVE ContentChange
    BY <2>3 DEF NewDay, ContentChange
  <2>4. QED BY <2>1, <2>2, <2>3 DEF StoreNext
<1>2. StoreSpec => [][ContentChange]_store
  BY <1>1, StoreInductive, PTL DEF StoreSpec
<1>3. QED BY <1>2 DEF EditsReplaceWhatWasSeen, ContentChange

-----------------------------------------------------------------------------
(* The answers.  What is told of a topic is true of it then, and stays so. *)
Told == {i \in Items : Genuine(i) /\ (i.id = 0 => i = NoItem)}

(* What the transaction of c has found, if nothing stands against it.      *)
Found(c) ==
    c.at = "locked" =>
      /\ c.op.kind # "get"
      /\ c.how = "ok" =>
           /\ c.op.kind \in {"update", "delete", "link", "unlink"} => c.op.base.id \in Live
           /\ c.op.kind = "create" => c.writes

(* The answer is about the topic that was asked for.                       *)
Tells(c) ==
    /\ c.item \in Told
    /\ /\ c.at = "done" /\ c.how = "ok"
       /\ c.op.kind \in {"get", "update", "link", "unlink"}
       => c.item.id = c.op.base.id

AnswersSound == \A s \in Sessions : Found(calls[s]) /\ Tells(calls[s])

LEMMA ToldGrows ==
    ASSUME TablesSound, TablesSound', Follows
    PROVE  Told \subseteq Told'
<1> SUFFICES ASSUME NEW i \in Items, Genuine(i), i.id = 0 => i = NoItem
             PROVE  i \in Told'
  BY DEF Told
<1>1. Genuine(i)'
  BY GenuineStays DEF Genuine
<1>2. QED BY <1>1 DEF Told

LEMMA NoItemTold == ASSUME TablesSound PROVE NoItem \in Told
  BY Defaults, NoItemGenuine DEF Told

(* What a topic is.                                                        *)
LEMMA RowTold ==
    ASSUME TablesSound', NEW i \in Items, i.id \in Live',
           i.rev = topics'[i.id].rev, i.name = topics'[i.id].name,
           i.text = topics'[i.id].text
    PROVE  i \in Told'
<1>1. i.id <= issued' /\ i.id # 0
  BY StoreAssumption, SMT DEF TablesSound, Live, TopicIds
<1>2. i.rev <= topics'[i.id].rev
  BY SMT DEF Items
<1>3. QED BY <1>1, <1>2 DEF Told, Genuine

LEMMA DtoTold ==
    ASSUME TablesSound, NEW t \in Live
    PROVE  TopicDto(t) \in Told /\ TopicDto(t).id = t
<1>1. TopicDto(t) \in Items /\ TopicDto(t).id = t
      /\ TopicDto(t).rev = topics[t].rev /\ TopicDto(t).name = topics[t].name
      /\ TopicDto(t).text = topics[t].text
  BY TopicDtoTyped DEF TopicDto
<1>2. t <= issued /\ t # 0 /\ topics[t].rev \in Nat
  BY StoreAssumption, SMT DEF TablesSound, Live, TopicIds, Topics
<1>3. QED BY <1>1, <1>2 DEF Told, Genuine

(* After an answer nobody is in a transaction.                             *)
LEMMA AnswerTells ==
    ASSUME IInv, AnswersSound, IInv', Follows,
           NEW s \in Sessions, calls[s].at = "locked",
           NEW how \in Hows, NEW item \in Items, Answer(s, how, item), item \in Told',
           how = "ok" /\ calls[s].op.kind \in {"get", "update", "link", "unlink"} =>
             item.id = calls[s].op.base.id
    PROVE  AnswersSound' /\ calls'[s].item = item /\ calls'[s].how = how
           /\ calls'[s].op = calls[s].op /\ calls'[s].at = "done"
<1>1. /\ \A r \in Sessions : calls'[r] = IF r = s
                                       THEN [calls[s] EXCEPT !.at = "done", !.how = how,
                                                             !.writes = FALSE, !.item = item]
                                       ELSE calls[r]
      /\ calls[s] \in Calls
  BY DEF IInv, CallsSound, Answer
<1>2. /\ calls'[s].item = item /\ calls'[s].how = how
      /\ calls'[s].op = calls[s].op /\ calls'[s].at = "done"
  BY <1>1 DEF Calls
<1>3. \A r \in Sessions \ {s} : calls'[r] = calls[r] /\ calls[r].at # "locked"
  BY <1>1 DEF IInv, LocksSound
<1>4. Told \subseteq Told'
  BY ToldGrows DEF IInv
<1>5. ASSUME NEW r \in Sessions PROVE (Found(calls[r]) /\ Tells(calls[r]))'
  <2>1. CASE r = s
    BY <1>2, <2>1 DEF Found, Tells
  <2>2. CASE r # s
    BY <1>3, <1>4, <2>2 DEF Found, Tells, AnswersSound
  <2>3. QED BY <2>1, <2>2
<1>6. QED BY <1>2, <1>5 DEF AnswersSound

LEMMA CreateTells ==
    ASSUME IInv, AnswersSound, IInv', Follows, NEW s \in Sessions, CreateTopic(s)
    PROVE  AnswersSound' /\ calls'[s].item.id = issued + 1
<1> DEFINE op == calls[s].op
           new == [rev |-> 1, name |-> op.name, text |-> op.text]
           item == [id |-> issued + 1, rev |-> 1, name |-> op.name, text |-> op.text]
<1>1. /\ op \in Ops /\ calls[s].at = "locked" /\ ~Taken(op.name, 0)
      /\ issued < MaxTopic /\ op.kind = "create"
  BY WriterReady, SMT DEF CreateTopic, Ready
<1>2. /\ issued' = issued + 1
      /\ topics' = [topics EXCEPT ![issued + 1] = new]
      /\ Answer(s, "ok", item)
  BY <1>1 DEF CreateTopic
<1>3. issued + 1 \in TopicIds /\ issued + 1 \in 0 .. MaxTopic
  BY <1>1, StoreAssumption, SMT DEF IInv, TablesSound, TopicIds
<1>4. topics'[issued + 1] = new
  BY <1>2, <1>3 DEF IInv, TablesSound
<1>5. item \in Items
  BY <1>1, <1>3, SMT DEF Items, Ops
<1>6. item.id \in Live'
  BY <1>3, <1>4 DEF Live
<1>7. item \in Told'
  BY <1>4, <1>5, <1>6, RowTold DEF IInv
<1>8. "ok" \in Hows /\ item.id = issued + 1
  BY DEF Hows
<1> HIDE DEF item
<1>9. QED BY <1>1, <1>2, <1>5, <1>7, <1>8, AnswerTells

LEMMA UpdateTells ==
    ASSUME IInv, AnswersSound, IInv', Follows, NEW s \in Sessions, UpdateTopic(s)
    PROVE  AnswersSound'
<1> DEFINE op == calls[s].op
           id == op.base.id
           new == [rev |-> topics[id].rev + 1, name |-> op.name, text |-> op.text]
           item == [id |-> id, rev |-> new.rev, name |-> new.name, text |-> new.text]
<1>1. /\ op \in Ops /\ op.base \in Items /\ calls[s].at = "locked"
      /\ id \in Live /\ IsCurrent(op.base) /\ ~Taken(op.name, id)
  BY WriterReady, SMT DEF UpdateTopic, Ready
<1>2. /\ topics' = [topics EXCEPT ![id] = new] /\ Answer(s, "ok", item)
  BY <1>1 DEF UpdateTopic
<1>3. id \in TopicIds /\ id \in 0 .. MaxTopic /\ topics[id].rev \in Nat
  BY <1>1, SMT DEF IInv, TablesSound, Live, Topics, Items
<1>4. topics'[id] = new
  BY <1>2, <1>3 DEF IInv, TablesSound
<1>5. item \in Items /\ item.id = id
  BY <1>1, <1>3, SMT DEF Items, Ops
<1>6. item.id \in Live'
  BY <1>3, <1>4, SMT DEF Live
<1>7. item \in Told'
  BY <1>4, <1>5, <1>6, RowTold DEF IInv
<1>8. "ok" \in Hows
  BY DEF Hows
<1>9. item.id = calls[s].op.base.id
  BY DEF id, op
<1> HIDE DEF item
<1>10. QED BY <1>1, <1>2, <1>5, <1>7, <1>8, <1>9, AnswerTells

LEMMA MembershipTells ==
    ASSUME IInv, AnswersSound, IInv', Follows, NEW s \in Sessions, SetMembership(s)
    PROVE  AnswersSound'
<1> DEFINE op == calls[s].op
           id == op.base.id
           item == [TopicDto(id) EXCEPT !.rev = @ + 1]
<1>1. /\ op \in Ops /\ calls[s].at = "locked"
      /\ id \in Live /\ op.article \in articles
  BY MembershipReady
<1>2. /\ topics' = [topics EXCEPT ![id].rev = @ + 1]
      /\ Answer(s, "ok", item)
  BY <1>1, Zenon DEF SetMembership
<1>3. id \in TopicIds /\ id \in 0 .. MaxTopic /\ topics[id] \in Topics
  BY <1>1, StoreAssumption, SMT DEF IInv, TablesSound, Live, TopicIds
<1>4. /\ item \in Items /\ item.id = id /\ item.rev = topics[id].rev + 1
      /\ item.name = topics[id].name /\ item.text = topics[id].text
  <2>1. /\ TopicDto(id) \in Items /\ TopicDto(id).id = id
        /\ TopicDto(id).rev = topics[id].rev /\ TopicDto(id).name = topics[id].name
        /\ TopicDto(id).text = topics[id].text
    BY <1>1, TopicDtoTyped DEF IInv, TopicDto
  <2> DEFINE b == TopicDto(id)
  <2>2. item = [b EXCEPT !.rev = @ + 1]
    OBVIOUS
  <2> HIDE DEF b, item
  <2>3. b \in Items
    BY <2>1 DEF b
  <2>4. /\ item \in Items /\ item.id = b.id /\ item.rev = b.rev + 1
        /\ item.name = b.name /\ item.text = b.text
    BY <2>2, <2>3, Renewed
  <2>5. QED BY <2>1, <2>4 DEF b
<1>5. /\ topics'[id].rev = topics[id].rev + 1
      /\ topics'[id].name = topics[id].name /\ topics'[id].text = topics[id].text
  BY <1>2, <1>3 DEF IInv, TablesSound, Topics
<1> HIDE DEF item
<1>6. id \in Live'
  BY <1>3, <1>5, SMT DEF Live, Topics
<1>7. item \in Told'
  BY <1>4, <1>5, <1>6, RowTold DEF IInv
<1>8. "ok" \in Hows
  BY DEF Hows
<1>9. QED BY <1>1, <1>2, <1>4, <1>7, <1>8, AnswerTells DEF id, op

(* A transaction that tells nothing of a topic.                            *)
LEMMA QuietlyTells ==
    ASSUME IInv, AnswersSound, IInv', Follows, NEW s \in Sessions,
           calls[s].at = "locked", NEW how \in Hows, Answer(s, how, NoItem),
           how = "ok" => calls[s].op.kind \notin {"get", "update", "link", "unlink"}
    PROVE  AnswersSound'
<1>1. NoItem \in Told' /\ NoItem \in Items
  BY NoItemTold, ToldGrows, Defaults DEF IInv
<1>2. QED BY <1>1, AnswerTells

LEMMA EmptyCommitTells ==
    ASSUME IInv, AnswersSound, IInv', Follows, NEW s \in Sessions, CommitNothing(s)
    PROVE  AnswersSound'
<1> DEFINE id == calls[s].op.base.id
           item == IF calls[s].how = "ok" /\ id \in Live THEN TopicDto(id) ELSE NoItem
<1>1. /\ calls[s].at = "locked" /\ calls[s] \in Calls /\ ~calls[s].writes
      /\ Answer(s, calls[s].how, item) /\ UNCHANGED tables
  BY DEF CommitNothing, IInv, CallsSound
<1>2. calls[s].how \in Hows /\ Found(calls[s])
  BY <1>1 DEF Calls, AnswersSound
<1>3. item \in Told /\ item \in Told' /\ item \in Items
  <2>1. item \in Told
    BY DtoTold, NoItemTold DEF IInv
  <2>2. QED BY <2>1, ToldGrows DEF IInv, Told
<1>4. ASSUME calls[s].how = "ok", calls[s].op.kind \in {"get", "update", "link", "unlink"}
      PROVE  item.id = id
  <2>1. id \in Live
    BY <1>1, <1>2, <1>4 DEF Found
  <2>2. QED BY <1>4, <2>1, DtoTold DEF IInv
<1> HIDE DEF item
<1>5. QED BY <1>1, <1>2, <1>3, <1>4, AnswerTells

(* The call of s changes, and no table.                                    *)
LEMMA OneCallTells ==
    ASSUME IInv, AnswersSound, IInv', Follows, UNCHANGED tables,
           NEW s \in Sessions, NEW c \in Calls,
           calls' = [calls EXCEPT ![s] = c], Found(c), Tells(c)
    PROVE  AnswersSound'
<1>1. \A r \in Sessions : calls'[r] = IF r = s THEN c ELSE calls[r]
  BY DEF IInv, CallsSound
<1>2. Told \subseteq Told' /\ Live' = Live
  BY ToldGrows DEF IInv, tables, Live
<1>3. QED BY <1>1, <1>2 DEF AnswersSound, Found, Tells

LEMMA LockTells ==
    ASSUME IInv, AnswersSound, IInv', Follows, NEW s \in Sessions, Lock(s)
    PROVE  AnswersSound'
<1> DEFINE op == calls[s].op
           w == Verdict(op) = "ok" /\ Writes(op)
           how == Verdict(op)
           c == [calls[s] EXCEPT !.at = "locked", !.how = how, !.writes = w]
<1>1. /\ calls[s] \in Calls /\ op \in Ops /\ op.kind # "get"
      /\ UNCHANGED tables
  BY DEF IInv, CallsSound, Calls, Lock
<1>2. how \in Hows
  BY <1>1, VerdictSound DEF IInv
<1>3. calls' = [calls EXCEPT ![s] = c]
  BY Zenon DEF Lock, IInv, CallsSound
<1>4. w \in BOOLEAN
  OBVIOUS
<1>5. op.kind \in {"update", "delete", "link", "unlink"} /\ how = "ok" => op.base.id \in Live
  BY DEF Verdict
<1>6. op.kind = "create" /\ how = "ok" => w
  BY DEF Writes
<1> HIDE DEF w, how, op
<1>7. /\ c \in Calls /\ c.at = "locked" /\ c.op = op /\ c.how = how /\ c.writes = w
      /\ c.item = calls[s].item
  BY <1>1, <1>2, <1>4 DEF Calls, op
<1> HIDE DEF c
<1>8. Found(c) /\ Tells(c)
  BY <1>1, <1>5, <1>6, <1>7 DEF Found, Tells, AnswersSound
<1>9. QED BY <1>1, <1>3, <1>7, <1>8, OneCallTells

LEMMA GetTells ==
    ASSUME IInv, AnswersSound, IInv', Follows, NEW s \in Sessions, GetTopic(s)
    PROVE  AnswersSound'
<1> DEFINE id == calls[s].op.base.id
           how == IF id \in Live THEN "ok" ELSE "missing"
           item == IF id \in Live THEN TopicDto(id) ELSE NoItem
           c == [calls[s] EXCEPT !.at = "done", !.how = how, !.item = item]
<1>1. calls[s] \in Calls /\ UNCHANGED tables
  BY DEF IInv, CallsSound, GetTopic
<1>2. item \in Told /\ item \in Items /\ how \in Hows /\ (how = "ok" => item.id = id)
  BY DtoTold, NoItemTold DEF IInv, Hows, Told
<1>3. calls' = [calls EXCEPT ![s] = c]
  BY Zenon DEF GetTopic, IInv, CallsSound
<1> HIDE DEF item, how
<1>4. c \in Calls /\ c.at = "done" /\ c.op = calls[s].op /\ c.item = item /\ c.how = how
  BY <1>1, <1>2 DEF Calls
<1> HIDE DEF c
<1>5. Found(c) /\ Tells(c)
  BY <1>2, <1>4 DEF Found, Tells
<1>6. QED BY <1>1, <1>3, <1>4, <1>5, OneCallTells

LEMMA NewCallTells ==
    ASSUME IInv, NEW c \in NewCalls
    PROVE  c \in Calls /\ Found(c) /\ Tells(c) /\ c.at \in {"idle", "sent"}
<1>1. c \in Calls /\ c.at \in {"idle", "sent"}
  BY NewCallSound DEF IInv
<1>2. c.item = NoItem
  <2>1. Idle.item = NoItem
    BY DEF Idle
  <2>2. \A op : Sent(op).item = Idle.item
    BY DEF Sent, Idle
  <2>3. QED BY <2>1, <2>2 DEF NewCalls
<1>3. QED BY <1>1, <1>2, NoItemTold DEF IInv, Found, Tells

LEMMA GiveUpTells ==
    ASSUME IInv, AnswersSound, IInv', Follows,
           NEW s \in Sessions, NEW r \in Sessions, GiveUp(s, r)
    PROVE  AnswersSound'
<1>1. UNCHANGED tables
  BY DEF GiveUp
<1>2. PICK c \in NewCalls : calls' = [calls EXCEPT ![r] = calls[s], ![s] = c]
  BY DEF GiveUp
<1>3. \A x \in Sessions : calls'[x] \in {c, calls[s], calls[x]}
  BY <1>2 DEF IInv, CallsSound
<1>4. Told \subseteq Told' /\ Live' = Live
  BY <1>1, ToldGrows DEF IInv, tables, Live
<1>5. Found(c) /\ Tells(c)
  BY NewCallTells
<1>6. QED BY <1>3, <1>4, <1>5 DEF AnswersSound, Found, Tells

LEMMA StepTells ==
    ASSUME IInv, AnswersSound, [StoreNext]_store
    PROVE  AnswersSound'
<1>1. IInv' /\ Follows
  BY StepSound
<1>2. ASSUME NEW s \in Sessions, Commit(s) PROVE AnswersSound'
  <2>1. CASE CreateTopic(s)
    BY <1>1, <2>1, CreateTells
  <2>2. CASE UpdateTopic(s)
    BY <1>1, <2>2, UpdateTells
  <2>3. CASE SetMembership(s)
    BY <1>1, <2>3, MembershipTells
  <2>4. CASE CommitNothing(s)
    BY <1>1, <2>4, EmptyCommitTells
  <2>5. CASE DeleteTopic(s) \/ SaveArticle(s) \/ RemoveArticle(s)
    <3>1. /\ calls[s].at = "locked" /\ calls[s].op.kind \in {"delete", "save", "remove"}
          /\ Answer(s, "ok", NoItem)
      BY <2>5 DEF DeleteTopic, SaveArticle, RemoveArticle, Writing
    <3>2. "ok" \in Hows
      BY DEF Hows
    <3>3. QED BY <1>1, <3>1, <3>2, QuietlyTells
  <2>6. QED BY <1>2, <2>1, <2>2, <2>3, <2>4, <2>5 DEF Commit
<1>3. ASSUME NEW s \in Sessions, RollBack(s) PROVE AnswersSound'
  <2>1. "error" \in Hows
    BY DEF Hows
  <2>2. QED BY <1>1, <1>3, <2>1, QuietlyTells DEF RollBack
<1>4. ASSUME NEW s \in Sessions, Send(s) PROVE AnswersSound'
  BY <1>1, <1>4, NewCallTells, OneCallTells DEF Send
<1>5. ASSUME UNCHANGED tables, calls' = calls PROVE AnswersSound'
  <2>1. Told \subseteq Told' /\ Live' = Live
    BY <1>1, <1>5, ToldGrows DEF IInv, tables, Live
  <2>2. QED BY <1>5, <2>1 DEF AnswersSound, Found, Tells
<1>6. CASE NewDay
  <2>1. Told \subseteq Told' /\ Live' = Live /\ calls' = calls
    BY <1>1, <1>6, ToldGrows DEF IInv, NewDay, Live
  <2>2. QED BY <2>1 DEF AnswersSound, Found, Tells
<1>7. CASE UNCHANGED store
  BY <1>5, <1>7 DEF store, tables
<1>8. QED BY <1>1, <1>2, <1>3, <1>4, <1>6, <1>7, LockTells, GetTells, GiveUpTells
          DEF StoreNext, Execute

-----------------------------------------------------------------------------
(* The lists: what MergeItems, Load and Follow make of them.               *)

(* To a place in a list its own distance from the end.                     *)
LEMMA NewestOfInterval ==
    ASSUME NEW n \in Nat
    PROVE  Newest(1 .. n) = [k \in 1 .. n |-> n - k + 1]
<1>1. IsFiniteSet(1 .. n) /\ Cardinality(1 .. n) = n
  BY FS_Interval
<1>2. ASSUME NEW x \in 1 .. n
      PROVE  Cardinality({m \in 1 .. n : m > x}) = n - x
  <2> DEFINE y == x + 1
  <2>1. {m \in 1 .. n : m > x} = y .. n
    OBVIOUS
  <2>2. y \in Int /\ n \in Int /\ (y > n => n - x = 0) /\ n - y + 1 = n - x
    OBVIOUS
  <2> HIDE DEF y
  <2>3. Cardinality(y .. n) = IF y > n THEN 0 ELSE n - y + 1
    BY <2>2, FS_Interval
  <2>4. QED BY <2>1, <2>2, <2>3
<1>3. ASSUME NEW k \in 1 .. n
      PROVE  (CHOOSE x \in 1 .. n : Cardinality({m \in 1 .. n : m > x}) = k - 1) = n - k + 1
  <2>1. \A x \in 1 .. n : Cardinality({m \in 1 .. n : m > x}) = k - 1 <=> x = n - k + 1
    <3>1. SUFFICES ASSUME NEW x \in 1 .. n
                   PROVE  Cardinality({m \in 1 .. n : m > x}) = k - 1 <=> x = n - k + 1
      OBVIOUS
    <3>2. n - x = k - 1 <=> x = n - k + 1
      OBVIOUS
    <3>3. QED BY <1>2, <3>2
  <2>2. n - k + 1 \in 1 .. n
    OBVIOUS
  <2>3. QED BY <2>1, <2>2
<1>4. Newest(1 .. n) =
        [k \in 1 .. n |-> CHOOSE x \in 1 .. n : Cardinality({m \in 1 .. n : m > x}) = k - 1]
  BY <1>1 DEF Newest
<1>5. QED BY <1>3, <1>4

(* A list that is filtered by nothing stays as it is.                      *)
LEMMA WithoutNothing ==
    ASSUME NEW T, NEW list \in Seq(T) PROVE Without(list, {}) = list
<1> DEFINE n == Len(list)
           down == Newest({i \in DOMAIN list : list[i] \notin {}})
           places == Reverse(down)
<1>1. n \in Nat /\ DOMAIN list = 1 .. n /\ list = [i \in 1 .. n |-> list[i]]
  OBVIOUS
<1>2. {i \in DOMAIN list : list[i] \notin {}} = 1 .. n
  BY <1>1
<1>3. down = [k \in 1 .. n |-> n - k + 1]
  BY <1>1, <1>2, NewestOfInterval
<1> HIDE DEF n
<1>4. Len(down) = n
  BY <1>1, <1>3
<1>5. places = [i \in 1 .. n |-> down[n - i + 1]]
  BY <1>4 DEF Reverse
<1> HIDE DEF down
<1>6. \A i \in 1 .. n : n - i + 1 \in 1 .. n /\ n - (n - i + 1) + 1 = i
  BY <1>1
<1>7. places = [i \in 1 .. n |-> i]
  BY <1>3, <1>5, <1>6
<1>8. Without(list, {}) = [k \in DOMAIN places |-> list[places[k]]]
  BY DEF Without, down, places
<1> HIDE DEF places
<1>9. QED BY <1>1, <1>7, <1>8

-----------------------------------------------------------------------------
(* The lists.                                                              *)
Scopes(kinds) == [of : kinds, topic : 0 .. MaxTopic, query : Searches]

PageRequests(T, kinds) ==
    [fresh : BOOLEAN, scope : Scopes(kinds), cursor : Nat,
     on : {"sent", "ok", "missing"}, items : Seq(T), next : Nat]

Pages(T, kinds) ==
    [scope : Scopes(kinds), items : Seq(T), cursor : Nat, failed : BOOLEAN,
     reqs : SUBSET PageRequests(T, kinds)]

(* Of rows that exist or did, each once, the newest first.                 *)
Falling(items, n) ==
    /\ \A i \in DOMAIN items : items[i].id \in 1 .. n
    /\ \A i, j \in DOMAIN items : i < j => items[i].id > items[j].id

LastIs(items, cursor) ==
    cursor # 0 => items # <<>> /\ items[Len(items)].id = cursor

AnswerSoundOf(r, n) ==
    r.on = "ok" =>
      /\ Falling(r.items, n) /\ LastIs(r.items, r.next)
      /\ r.cursor # 0 => \A i \in DOMAIN r.items : r.items[i].id < r.cursor

(* Only the last request counts, and it asks for what the list lacks.      *)
PageSound(p, n) ==
    /\ Falling(p.items, n) /\ LastIs(p.items, p.cursor)
    /\ \A r \in p.reqs : AnswerSoundOf(r, n)
    /\ \A r \in p.reqs :
          r.fresh => /\ r.scope = p.scope /\ r.cursor = p.cursor
                     /\ r.cursor = 0 => p.items = <<>>
    /\ \A r, q \in p.reqs : r.fresh /\ q.fresh => r = q

HasId(items, x) == \E i \in DOMAIN items : items[i].id = x

(* The rows that the answer to r is about.                                 *)
Reaches(r, x) ==
    /\ x >= r.next
    /\ IF r.cursor = 0 THEN r.items # <<>> /\ x <= r.items[1].id
       ELSE x < r.cursor

Filled(p, ids) ==
    /\ p.items # <<>> =>
         \A x \in ids : x <= p.items[1].id /\ x >= p.cursor => HasId(p.items, x)
    /\ \A r \in p.reqs :
          r.fresh /\ r.on = "ok" =>
            \A x \in ids : Reaches(r, x) => HasId(r.items, x)

Shows(scope, kind) == scope.of = kind /\ scope.query = ""

ListSound(p, kind, n, ids) ==
    PageSound(p, n) /\ (Shows(p.scope, kind) => Filled(p, ids))

(* An answer that has none of what the list has is put behind it.          *)
LEMMA MergeAppends ==
    ASSUME NEW T, NEW old \in Seq(T), NEW new \in Seq(T),
           \A i \in DOMAIN old, j \in DOMAIN new : old[i].id # new[j].id
    PROVE  MergeItems(old, new) = old \o new
<1> DEFINE of(id) == CHOOSE n \in Range(new) : n.id = id
           in(s, id) == \E x \in Range(s) : x.id = id
           first == [i \in DOMAIN old |-> IF in(new, old[i].id) THEN of(old[i].id) ELSE old[i]]
           both == {x \in Range(new) : in(old, x.id)}
<1>1. \A i \in DOMAIN old : ~in(new, old[i].id)
  BY DEF Range
<1>2. both = {}
  BY DEF Range
<1>3. old = [i \in DOMAIN old |-> old[i]]
  OBVIOUS
<1>4. first = old
  BY <1>1, <1>3
<1>5. MergeItems(old, new) = first \o Without(new, both)
  BY Zenon DEF MergeItems
<1> HIDE DEF first, both
<1>6. QED BY <1>2, <1>4, <1>5, WithoutNothing

LEMMA SupersededSound ==
    ASSUME NEW T, NEW kinds, NEW p \in Pages(T, kinds), NEW n, PageSound(p, n)
    PROVE  /\ Superseded(p) \in SUBSET PageRequests(T, kinds)
           /\ \A r \in Superseded(p) : ~r.fresh /\ AnswerSoundOf(r, n)
<1>1. p.reqs \in SUBSET PageRequests(T, kinds)
  BY DEF Pages
<1>2. ASSUME NEW r \in p.reqs
      PROVE  LET q == [r EXCEPT !.fresh = FALSE]
             IN  q \in PageRequests(T, kinds) /\ ~q.fresh /\ AnswerSoundOf(q, n)
  <2> DEFINE q == [r EXCEPT !.fresh = FALSE]
  <2>1. r \in PageRequests(T, kinds) /\ AnswerSoundOf(r, n)
    BY <1>1 DEF PageSound
  <2>2. /\ q \in PageRequests(T, kinds) /\ q.fresh = FALSE /\ q.on = r.on
        /\ q.items = r.items /\ q.next = r.next /\ q.cursor = r.cursor
    BY <2>1 DEF PageRequests
  <2> HIDE DEF q
  <2>3. AnswerSoundOf(q, n)
    BY <2>1, <2>2 DEF AnswerSoundOf
  <2>4. QED BY <2>2, <2>3 DEF q
<1>3. CASE Running(p)
  BY <1>2, <1>3 DEF Superseded
<1>4. CASE ~Running(p)
  BY <1>1, <1>4 DEF Superseded, Running, PageSound
<1>5. QED BY <1>3, <1>4

(* A list that is asked for again, or for what follows its cursor.         *)
LEMMA LoadSound ==
    ASSUME NEW T, NEW kinds, NEW p \in Pages(T, kinds), NEW n \in Nat, NEW kind, NEW ids,
           ListSound(p, kind, n, ids), NEW scope \in Scopes(kinds), NEW c \in Nat,
           c = 0 \/ (c = p.cursor /\ scope = p.scope)
    PROVE  LET d == Load(p, scope, c)
           IN  d \in Pages(T, kinds) /\ ListSound(d, kind, n, ids)
<1>1. CASE c # 0 /\ Running(p)
  BY <1>1 DEF Load
<1>2. CASE ~(c # 0 /\ Running(p))
  <2> DEFINE ask == Ask(scope, c)
             items == IF c # 0 /\ p.scope = scope THEN p.items ELSE <<>>
             reqs == Superseded(p) \cup {ask}
             d == [scope |-> scope, items |-> items, cursor |-> c, failed |-> FALSE,
                   reqs |-> reqs]
  <2>1. d = Load(p, scope, c)
    BY <1>2 DEF Load
  <2>2. /\ p.items \in Seq(T) /\ PageSound(p, n)
        /\ Superseded(p) \in SUBSET PageRequests(T, kinds)
        /\ \A r \in Superseded(p) : ~r.fresh /\ AnswerSoundOf(r, n)
    BY SupersededSound DEF Pages, ListSound
  <2>3. /\ ask \in PageRequests(T, kinds) /\ ask.fresh /\ ask.on = "sent"
        /\ ask.scope = scope /\ ask.cursor = c
    <3>1. <<>> \in Seq(T)
      OBVIOUS
    <3>2. QED BY <3>1 DEF Ask, PageRequests
  <2> HIDE DEF ask
  <2>4. items \in Seq(T) /\ Falling(items, n) /\ LastIs(items, c)
        /\ (c = 0 => items = <<>>) /\ (c # 0 => items = p.items)
    <3>1. Falling(<<>>, n)
      BY DEF Falling
    <3>2. QED BY <2>2, <3>1 DEF PageSound, LastIs
  <2>5. ASSUME c # 0, Shows(scope, kind), items # <<>>, NEW x \in ids,
               x <= items[1].id, x >= c
        PROVE  HasId(items, x)
    BY <2>4, <2>5 DEF ListSound, Filled
  <2> HIDE DEF items
  <2>6. /\ d.scope = scope /\ d.items = items /\ d.cursor = c /\ d.reqs = reqs
        /\ reqs \in SUBSET PageRequests(T, kinds) /\ d.failed = FALSE
    BY <2>2, <2>3
  <2>7. d \in Pages(T, kinds)
    BY <2>4, <2>6 DEF Pages
  <2>8. \A r \in reqs : AnswerSoundOf(r, n) /\ (r.fresh => r = ask)
    BY <2>2, <2>3 DEF AnswerSoundOf
  <2> HIDE DEF d, reqs
  <2>9. PageSound(d, n)
    BY <2>3, <2>4, <2>6, <2>8 DEF PageSound
  <2>10. Shows(scope, kind) => Filled(d, ids)
    BY <2>3, <2>4, <2>5, <2>6, <2>8 DEF Filled
  <2>11. QED BY <2>1, <2>6, <2>7, <2>9, <2>10 DEF ListSound
<1>3. QED BY <1>1, <1>2

LEMMA ReloadSound ==
    ASSUME NEW T, NEW kinds, NEW p \in Pages(T, kinds), NEW n \in Nat, NEW kind, NEW ids,
           ListSound(p, kind, n, ids)
    PROVE  Reload(p) \in Pages(T, kinds) /\ ListSound(Reload(p), kind, n, ids)
<1>1. p.scope \in Scopes(kinds)
  BY DEF Pages
<1>2. QED BY <1>1, LoadSound DEF Reload

LEMMA FollowSound ==
    ASSUME NEW T, NEW kinds, NEW p \in Pages(T, kinds), NEW n \in Nat, NEW kind, NEW ids,
           ListSound(p, kind, n, ids), NEW scope \in Scopes(kinds)
    PROVE  Follow(p, scope) \in Pages(T, kinds) /\ ListSound(Follow(p, scope), kind, n, ids)
<1>1. CASE p.scope = scope
  BY <1>1 DEF Follow
<1>2. CASE p.scope # scope /\ scope # NoScope
  BY <1>2, LoadSound DEF Follow
<1>3. CASE p.scope # scope /\ scope = NoScope
  <2> DEFINE reqs == Superseded(p)
             d == [NoPage EXCEPT !.reqs = reqs]
  <2>1. d = Follow(p, scope)
    BY <1>3 DEF Follow
  <2>2. /\ reqs \in SUBSET PageRequests(T, kinds)
        /\ \A r \in reqs : ~r.fresh /\ AnswerSoundOf(r, n)
    BY SupersededSound DEF ListSound
  <2> HIDE DEF reqs
  <2>3. /\ d.scope = scope /\ d.items = <<>> /\ d.cursor = 0 /\ d.reqs = reqs
        /\ d.failed = FALSE
    BY <1>3 DEF NoPage
  <2>4. d \in Pages(T, kinds)
    <3>1. <<>> \in Seq(T)
      OBVIOUS
    <3>2. NoPage = [scope |-> scope, items |-> <<>>, cursor |-> 0, failed |-> FALSE,
                    reqs |-> {}]
      BY <1>3 DEF NoPage
    <3>3. QED BY <2>2, <3>1, <3>2 DEF Pages
  <2> HIDE DEF d
  <2>5. PageSound(d, n) /\ Filled(d, ids)
    BY <2>2, <2>3 DEF PageSound, Filled, Falling, LastIs
  <2>6. QED BY <2>1, <2>4, <2>5 DEF ListSound
<1>4. QED BY <1>1, <1>2, <1>3

-----------------------------------------------------------------------------
(* The lists: an answer is taken.                                          *)

(* The answer to r is heard, or r is lost.                                 *)
LEMMA TakeSound ==
    ASSUME NEW T, NEW kinds, NEW p \in Pages(T, kinds), NEW n \in Nat, NEW kind, NEW ids,
           ids \subseteq Nat, ListSound(p, kind, n, ids), NEW r \in p.reqs
    PROVE  Take(p, r) \in Pages(T, kinds) /\ ListSound(Take(p, r), kind, n, ids)
<1> DEFINE rest == [p EXCEPT !.reqs = @ \ {r}]
<1>1. /\ p.items \in Seq(T) /\ p.scope \in Scopes(kinds) /\ p.cursor \in Nat
      /\ p.reqs \in SUBSET PageRequests(T, kinds) /\ p.failed \in BOOLEAN
      /\ p = [scope |-> p.scope, items |-> p.items, cursor |-> p.cursor,
              failed |-> p.failed, reqs |-> p.reqs]
  BY DEF Pages
<1>2. /\ r.items \in Seq(T) /\ r.next \in Nat /\ r.cursor \in Nat /\ r.fresh \in BOOLEAN
  BY <1>1 DEF PageRequests
<1>3. /\ Falling(p.items, n) /\ LastIs(p.items, p.cursor)
      /\ \A q \in p.reqs : AnswerSoundOf(q, n)
      /\ r.fresh => /\ r.scope = p.scope /\ r.cursor = p.cursor
      /\ r.fresh => \A q \in p.reqs \ {r} : ~q.fresh
  BY <1>2 DEF ListSound, PageSound
<1>4. ASSUME NEW failed \in BOOLEAN
      PROVE  LET d == [rest EXCEPT !.failed = failed]
             IN  d \in Pages(T, kinds) /\ ListSound(d, kind, n, ids)
  <2> DEFINE d == [rest EXCEPT !.failed = failed]
  <2>1. /\ d \in Pages(T, kinds) /\ d.scope = p.scope /\ d.items = p.items
        /\ d.cursor = p.cursor /\ d.reqs = p.reqs \ {r}
    BY <1>1 DEF Pages
  <2> HIDE DEF d
  <2>2. PageSound(d, n)
    BY <2>1 DEF ListSound, PageSound
  <2>3. Shows(d.scope, kind) => Filled(d, ids)
    BY <2>1 DEF ListSound, Filled
  <2>4. QED BY <2>1, <2>2, <2>3 DEF ListSound, d
<1>5. CASE ~Counts(p, r)
  <2>1. rest = [rest EXCEPT !.failed = p.failed]
    BY <1>1
  <2>2. QED BY <1>1, <1>4, <1>5, <2>1, Zenon DEF Take
<1>6. CASE Counts(p, r) /\ r.on # "ok"
  BY <1>4, <1>6 DEF Take
<1>7. CASE Counts(p, r) /\ r.on = "ok"
  <2> DEFINE items == IF r.cursor # 0 THEN MergeItems(p.items, r.items) ELSE r.items
             d == [rest EXCEPT !.items = items, !.cursor = r.next, !.failed = FALSE]
  <2>1. d = Take(p, r)
    BY <1>7 DEF Take
  <2>2. /\ r.fresh /\ r.scope = p.scope /\ r.cursor = p.cursor
        /\ Falling(r.items, n) /\ LastIs(r.items, r.next)
        /\ r.cursor # 0 => \A i \in DOMAIN r.items : r.items[i].id < r.cursor
    BY <1>2, <1>3, <1>7 DEF Counts, AnswerSoundOf
  <2>3. ASSUME Shows(p.scope, kind), NEW x \in ids, Reaches(r, x)
        PROVE  HasId(r.items, x)
    BY <1>7, <2>2, <2>3 DEF ListSound, Filled
  <2>4. ASSUME Shows(p.scope, kind), p.items # <<>>, NEW x \in ids,
               x <= p.items[1].id, x >= p.cursor
        PROVE  HasId(p.items, x)
    BY <2>4 DEF ListSound, Filled
  <2>5. /\ items \in Seq(T) /\ Falling(items, n) /\ LastIs(items, r.next)
        /\ Shows(p.scope, kind) /\ items # <<>> =>
             \A x \in ids : x <= items[1].id /\ x >= r.next => HasId(items, x)
    <3>1. CASE r.cursor = 0
      <4>1. items = r.items
        BY <3>1
      <4>2. \A x \in ids : r.items # <<>> /\ x <= r.items[1].id /\ x >= r.next => Reaches(r, x)
        BY <3>1 DEF Reaches
      <4>3. QED BY <1>2, <2>2, <2>3, <4>1, <4>2
    <3>2. CASE r.cursor # 0
      <4> DEFINE m == Len(p.items)
                 k == Len(r.items)
      <4>1. /\ m \in Nat /\ DOMAIN p.items = 1 .. m /\ p.items # <<>>
            /\ p.items[m].id = r.cursor
            /\ k \in Nat /\ DOMAIN r.items = 1 .. k
        BY <1>1, <1>2, <1>3, <2>2, <3>2 DEF LastIs
      <4>11. p.items \o r.items = [i \in 1 .. (m + k) |->
                 IF i <= m THEN p.items[i] ELSE r.items[i - m]]
             /\ p.items \o r.items \in Seq(T)
        BY <1>1, <1>2
      <4>12. m = 0 => p.items = <<>>
        BY <1>1, EmptySeq
      <4>13. k = 0 => r.items = <<>>
        BY <1>2, EmptySeq
      <4>14. Len(p.items) = m /\ Len(r.items) = k
        OBVIOUS
      <4> HIDE DEF m, k
      <4>2. m > 0 /\ m \in 1 .. m /\ 1 \in 1 .. m
        <5>1. m # 0
          BY <4>1, <4>12
        <5>2. QED BY <4>1, <5>1
      <4>3. /\ \A i \in 1 .. m : p.items[i].id \in 1 .. n /\ p.items[i].id >= r.cursor
            /\ \A i, j \in 1 .. m : i < j => p.items[i].id > p.items[j].id
            /\ \A i \in 1 .. k : r.items[i].id \in 1 .. n /\ r.items[i].id < r.cursor
            /\ \A i, j \in 1 .. k : i < j => r.items[i].id > r.items[j].id
        <5>1. /\ \A i \in 1 .. m : p.items[i].id \in 1 .. n
              /\ \A i, j \in 1 .. m : i < j => p.items[i].id > p.items[j].id
              /\ \A i \in 1 .. k : r.items[i].id \in 1 .. n /\ r.items[i].id < r.cursor
              /\ \A i, j \in 1 .. k : i < j => r.items[i].id > r.items[j].id
          BY <1>3, <2>2, <3>2, <4>1 DEF Falling
        <5>2. ASSUME NEW i \in 1 .. m PROVE p.items[i].id >= r.cursor
          <6>1. i = m \/ i < m
            BY <4>1
          <6>2. p.items[i].id \in Nat /\ p.items[m].id \in Nat
            BY <4>2, <5>1
          <6>3. i < m => p.items[i].id > p.items[m].id
            BY <4>2, <5>1
          <6>4. QED BY <1>2, <4>1, <6>1, <6>2, <6>3
        <5>3. QED BY <5>1, <5>2
      <4>4. items = p.items \o r.items
        <5>1. \A i \in DOMAIN p.items, j \in DOMAIN r.items : p.items[i].id # r.items[j].id
          BY <1>2, <4>1, <4>3
        <5>2. QED BY <1>1, <1>2, <3>2, <5>1, MergeAppends
      <4> HIDE DEF items
      <4>5. /\ items \in Seq(T) /\ Len(items) = m + k /\ DOMAIN items = 1 .. (m + k)
            /\ \A i \in 1 .. m : items[i] = p.items[i]
            /\ \A i \in 1 .. k : items[m + i] = r.items[i]
        <5>1. m + k \in Nat /\ \A i \in 1 .. m : i \in 1 .. (m + k) /\ i <= m
          BY <4>1
        <5>2. \A i \in 1 .. k : m + i \in 1 .. (m + k) /\ ~(m + i <= m) /\ (m + i) - m = i
          BY <4>1, <4>2
        <5>3. DOMAIN items = 1 .. (m + k) /\ items \in Seq(T)
          BY <4>4, <4>11
        <5>4. Len(items) = m + k
          BY <5>1, <5>3
        <5>5. \A i \in 1 .. (m + k) :
                 items[i] = IF i <= m THEN p.items[i] ELSE r.items[i - m]
          BY <4>4, <4>11
        <5>6. \A i \in 1 .. m : items[i] = p.items[i]
          BY <5>1, <5>5
        <5>7. ASSUME NEW i \in 1 .. k PROVE items[m + i] = r.items[i]
          <6> DEFINE j == m + i
          <6>1. j \in 1 .. (m + k) /\ ~(j <= m) /\ j - m = i
            BY <5>2
          <6> HIDE DEF j
          <6>2. items[j] = r.items[i]
            BY <5>5, <6>1
          <6>3. QED BY <6>2 DEF j
        <5>8. QED BY <5>3, <5>4, <5>6, <5>7
      <4>6. \A i \in 1 .. (m + k) : i \in 1 .. m \/ (i > m /\ i - m \in 1 .. k /\ m + (i - m) = i)
        BY <4>1
      <4>7. Falling(items, n)
        <5>1. \A i \in 1 .. (m + k) : items[i].id \in 1 .. n
          BY <4>3, <4>5, <4>6
        <5>2. ASSUME NEW i \in 1 .. (m + k), NEW j \in 1 .. (m + k), i < j
              PROVE  items[i].id > items[j].id
          <6>1. CASE i \in 1 .. m /\ j \in 1 .. m
            BY <4>3, <4>5, <5>2, <6>1
          <6>2. CASE i \in 1 .. m /\ j > m
            <7>0. j - m \in 1 .. k /\ items[j] = r.items[j - m]
              <8>1. j - m \in 1 .. k /\ m + (j - m) = j
                BY <4>1, <6>2
              <8>2. QED BY <4>5, <8>1
            <7>1. items[i].id >= r.cursor /\ items[j].id < r.cursor
              BY <4>3, <4>5, <6>2, <7>0
            <7>2. items[i].id \in Nat /\ items[j].id \in Nat
              BY <5>1
            <7>3. QED BY <1>2, <7>1, <7>2
          <6>3. CASE i > m
            <7>1. j > m /\ i - m \in 1 .. k /\ j - m \in 1 .. k /\ i - m < j - m
                  /\ m + (i - m) = i /\ m + (j - m) = j
              BY <4>1, <5>2, <6>3
            <7>2. items[i] = r.items[i - m] /\ items[j] = r.items[j - m]
              BY <4>5, <7>1
            <7>3. QED BY <4>3, <7>1, <7>2
          <6>4. QED BY <4>6, <6>1, <6>2, <6>3
        <5>3. QED BY <4>5, <5>1, <5>2 DEF Falling
      <4>8. LastIs(items, r.next)
        <5>1. SUFFICES ASSUME r.next # 0 PROVE items # <<>> /\ items[Len(items)].id = r.next
          BY DEF LastIs
        <5>2. r.items # <<>> /\ r.items[k].id = r.next
          BY <2>2, <4>14, <5>1 DEF LastIs
        <5>3. k # 0 /\ k \in 1 .. k
          BY <4>1, <4>13, <5>2
        <5>4. items[m + k] = r.items[k] /\ m + k \in DOMAIN items
          BY <4>1, <4>5, <5>3
        <5>5. QED BY <4>5, <5>2, <5>4
      <4>9. ASSUME Shows(p.scope, kind), NEW x \in ids, x <= items[1].id, x >= r.next
            PROVE  HasId(items, x)
        <5>1. items[1] = p.items[1] /\ x \in Nat
          BY <4>2, <4>5
        <5>2. CASE x >= r.cursor
          <6>1. PICK i \in 1 .. m : p.items[i].id = x
            BY <2>2, <2>4, <4>1, <4>9, <5>1, <5>2 DEF HasId
          <6>2. items[i].id = x /\ i \in DOMAIN items
            BY <4>1, <4>5, <6>1
          <6>3. QED BY <6>2 DEF HasId
        <5>3. CASE x < r.cursor
          <6>1. Reaches(r, x)
            BY <3>2, <4>9, <5>3 DEF Reaches
          <6>2. PICK i \in 1 .. k : r.items[i].id = x
            BY <2>3, <4>1, <4>9, <6>1 DEF HasId
          <6>3. items[m + i].id = x /\ m + i \in DOMAIN items
            BY <4>1, <4>5, <6>2
          <6>4. QED BY <6>3 DEF HasId
        <5>4. QED BY <1>2, <5>1, <5>2, <5>3
      <4>10. QED BY <4>5, <4>7, <4>8, <4>9
    <3>3. QED BY <3>1, <3>2
  <2> HIDE DEF items
  <2>6. /\ d.scope = p.scope /\ d.items = items /\ d.cursor = r.next
        /\ d.reqs = p.reqs \ {r}
    BY <1>1
  <2>7. d \in Pages(T, kinds)
    BY <1>1, <1>2, <2>5 DEF Pages
  <2> HIDE DEF d
  <2>8. PageSound(d, n)
    BY <1>3, <2>2, <2>5, <2>6 DEF PageSound
  <2>9. Shows(d.scope, kind) => Filled(d, ids)
    BY <1>3, <2>2, <2>5, <2>6 DEF Filled
  <2>10. QED BY <2>1, <2>7, <2>8, <2>9 DEF ListSound
<1>8. QED BY <1>5, <1>6, <1>7

(* While more rows come to be, and some go, the list keeps what it says.   *)
LEMMA ListGrows ==
    ASSUME NEW T, NEW kinds, NEW p \in Pages(T, kinds), NEW n \in Nat, NEW m \in Nat,
           n <= m, NEW kind, NEW ids, NEW more, ListSound(p, kind, n, ids),
           more \subseteq Nat, \A x \in more : x \in ids \/ x > n
    PROVE  ListSound(p, kind, m, more)
<1>1. p.cursor \in Nat /\ p.items \in Seq(T) /\ p.reqs \in SUBSET PageRequests(T, kinds)
  BY DEF Pages
<1>2. 1 .. n \subseteq 1 .. m
  OBVIOUS
<1>3. \A items : Falling(items, n) => Falling(items, m)
  BY <1>2 DEF Falling
<1>4. PageSound(p, m)
  <2>1. \A r \in p.reqs : AnswerSoundOf(r, m)
    BY <1>3 DEF ListSound, PageSound, AnswerSoundOf
  <2>2. QED BY <1>3, <2>1 DEF ListSound, PageSound
<1>5. \A items \in Seq(T) : items # <<>> /\ Falling(items, n) => items[1].id \in 1 .. n
  <2>1. SUFFICES ASSUME NEW items \in Seq(T), items # <<>>, Falling(items, n)
                 PROVE  items[1].id \in 1 .. n
    OBVIOUS
  <2>2. Len(items) # 0 /\ Len(items) \in Nat /\ DOMAIN items = 1 .. Len(items)
    BY <2>1, EmptySeq
  <2>3. 1 \in DOMAIN items
    BY <2>2
  <2>4. QED BY <2>1, <2>3 DEF Falling
<1>6. ASSUME Shows(p.scope, kind) PROVE Filled(p, more)
  <2>1. Filled(p, ids) /\ PageSound(p, n)
    BY <1>6 DEF ListSound
  <2>2. ASSUME p.items # <<>>, NEW x \in more, x <= p.items[1].id, x >= p.cursor
        PROVE  HasId(p.items, x)
    <3>1. p.items[1].id \in 1 .. n
      BY <1>1, <1>5, <2>1, <2>2 DEF PageSound
    <3>2. x \in ids
      BY <2>2, <3>1
    <3>3. QED BY <2>1, <2>2, <3>2 DEF Filled
  <2>3. ASSUME NEW r \in p.reqs, r.fresh, r.on = "ok", NEW x \in more, Reaches(r, x)
        PROVE  HasId(r.items, x)
    <3>1. r.items \in Seq(T) /\ r.cursor \in Nat /\ Falling(r.items, n) /\ r.cursor = p.cursor
      BY <1>1, <2>1, <2>3 DEF PageSound, AnswerSoundOf, PageRequests
    <3>2. CASE r.cursor = 0
      <4>1. r.items # <<>> /\ x <= r.items[1].id
        BY <2>3, <3>2 DEF Reaches
      <4>2. r.items[1].id \in 1 .. n
        BY <1>5, <3>1, <4>1
      <4>3. x \in ids
        <5> DEFINE y == r.items[1].id
        <5>1. y \in 1 .. n /\ x <= y /\ x \in Nat
          BY <4>1, <4>2
        <5> HIDE DEF y
        <5>2. x \in Nat /\ ~(x > n)
          BY <5>1, SMT
        <5>3. QED BY <5>2
      <4>4. QED BY <2>1, <2>3, <4>3 DEF Filled
    <3>3. CASE r.cursor # 0
      <4>1. p.items # <<>> /\ p.items[Len(p.items)].id = r.cursor /\ x < r.cursor
        BY <2>1, <2>3, <3>1, <3>3 DEF PageSound, LastIs, Reaches
      <4>2. Len(p.items) \in DOMAIN p.items
        <5>1. Len(p.items) # 0 /\ Len(p.items) \in Nat /\ DOMAIN p.items = 1 .. Len(p.items)
          BY <1>1, <4>1, EmptySeq
        <5>2. QED BY <5>1
      <4>3. r.cursor \in 1 .. n
        BY <2>1, <4>1, <4>2 DEF PageSound, Falling
      <4>4. x \in ids
        BY <4>1, <4>3
      <4>5. QED BY <2>1, <2>3, <4>4 DEF Filled
    <3>4. QED BY <3>2, <3>3
  <2>4. QED BY <2>2, <2>3 DEF Filled
<1>7. QED BY <1>4, <1>6 DEF ListSound

-----------------------------------------------------------------------------
(* The lists: the API answers.                                             *)

(* A page has what there is below its cursor, down to where the next one   *)
(* begins.                                                                 *)
LEMMA PageHolds ==
    ASSUME NEW n \in Nat, NEW S \in SUBSET (1 .. n), NEW c \in Nat
    PROVE  LET rows == PageOf(S, c)
               next == NextOf(S, c)
           IN  /\ rows \in Seq(S) /\ next \in Nat
               /\ \A i, j \in DOMAIN rows : i < j => rows[i] > rows[j]
               /\ next # 0 => rows # <<>> /\ rows[Len(rows)] = next
               /\ c # 0 => \A i \in DOMAIN rows : rows[i] < c
               /\ \A x \in S : x >= next /\ (c # 0 => x < c) =>
                    \E i \in DOMAIN rows : rows[i] = x
<1> DEFINE B == {x \in S : c # 0 => x < c}
           f == Newest(B)
           k == IF Len(f) < PageSize THEN Len(f) ELSE PageSize
           p == SubSeq(f, 1, k)
           next == NextOf(S, c)
<1>1. PageSize \in Nat \ {0}
  BY PagesAssumption
<1>2. B \subseteq 1 .. n /\ B \subseteq Nat /\ IsFiniteSet(B)
  <2>1. IsFiniteSet(1 .. n) /\ 1 .. n \subseteq Nat
    BY FS_Interval
  <2>2. B \subseteq 1 .. n
    OBVIOUS
  <2>3. QED BY <2>1, <2>2, FS_Subset, B \in SUBSET (1 .. n)
<1>3. p = PageOf(S, c)
  BY DEF PageOf, Below
<1>4. next = IF Len(f) > PageSize THEN p[PageSize] ELSE 0
  BY <1>3 DEF NextOf, Below
<1>5. /\ f \in Seq(B) /\ Len(f) = Cardinality(B)
      /\ \A i, j \in 1 .. Cardinality(B) : i < j => f[i] > f[j]
      /\ \A x \in B : \E i \in 1 .. Cardinality(B) : f[i] = x
  BY <1>2, NewestFirst
<1>6. \A x \in S : (c # 0 => x < c) => x \in B
  OBVIOUS
<1>7. \A x \in B : x \in S /\ (c # 0 => x < c) /\ x \in Nat /\ x # 0
  BY <1>2
<1> HIDE DEF B, f, next
<1>8. Len(f) \in Nat /\ k \in Nat /\ k <= Len(f)
  BY <1>1, <1>5
<1>9. p = [i \in 1 .. k |-> f[i]]
  BY <1>5, <1>8
<1>10. \A i \in 1 .. Len(f) : f[i] \in B
  BY <1>5, ElementOfSeq
<1>11. Len(f) > PageSize => k = PageSize /\ k \in 1 .. k
  BY <1>1, <1>8
<1>12. ~(Len(f) > PageSize) => k = Len(f)
  BY <1>1, <1>8
<1>13. \A i \in 1 .. k : i \in 1 .. Len(f)
  BY <1>8
<1> HIDE DEF k, p
<1>14. DOMAIN p = 1 .. k /\ Len(p) = k /\ \A i \in 1 .. k : p[i] = f[i]
  BY <1>8, <1>9
<1>15. p \in Seq(S)
  <2>1. \A i \in 1 .. k : f[i] \in S
    BY <1>7, <1>10, <1>13
  <2>2. QED BY <1>8, <1>9, <2>1
<1>16. /\ Len(f) > PageSize => next = f[k] /\ p # <<>> /\ next \in Nat /\ p[k] = next
       /\ ~(Len(f) > PageSize) => next = 0
  <2>1. ASSUME Len(f) > PageSize
        PROVE  next = f[k] /\ p # <<>> /\ next \in Nat /\ p[k] = next
    <3>1. k = PageSize /\ k \in 1 .. k
      BY <1>11, <2>1
    <3>2. p[k] = f[k] /\ next = p[k]
      BY <1>4, <1>14, <2>1, <3>1
    <3>3. p # <<>>
      BY <1>14, <3>1, EmptySeq
    <3>4. f[k] \in Nat
      BY <1>7, <1>10, <1>13, <3>1
    <3>5. QED BY <3>2, <3>3, <3>4
  <2>2. QED BY <1>4, <2>1
<1>17. \A i, j \in 1 .. k : i < j => p[i] > p[j]
  BY <1>5, <1>13, <1>14
<1>18. c # 0 => \A i \in 1 .. k : p[i] < c
  BY <1>7, <1>10, <1>13, <1>14
<1>19. ASSUME NEW x \in S, x >= next, c # 0 => x < c
       PROVE  \E i \in 1 .. k : p[i] = x
  <2>1. x \in B
    BY <1>6, <1>19
  <2>2. PICK i \in 1 .. Len(f) : f[i] = x
    BY <1>5, <2>1
  <2>3. CASE i <= k
    <3>1. i \in 1 .. k
      BY <1>8, <2>3
    <3>2. QED BY <1>14, <2>2, <3>1
  <2>4. CASE i > k
    <3>1. Len(f) > PageSize
      BY <1>8, <1>12, <2>4
    <3>2. next = f[k] /\ k \in 1 .. Len(f)
      BY <1>11, <1>13, <1>16, <3>1
    <3>3. f[k] > f[i]
      BY <1>5, <2>4, <3>2
    <3>4. f[k] \in Nat /\ f[i] \in Nat
      BY <1>7, <1>10, <3>2
    <3>5. QED BY <1>19, <2>2, <3>2, <3>3, <3>4
  <2>5. QED BY <1>8, <2>3, <2>4
<1>20. next \in Nat
  BY <1>16
<1>21. next # 0 => p # <<>> /\ p[Len(p)] = next
  BY <1>14, <1>16
<1>22. QED BY <1>3, <1>14, <1>15, <1>17, <1>18, <1>19, <1>20, <1>21 DEF next

(* What the answer to r is, whatever its rows are shown as.                *)
LEMMA AnswerSoundly ==
    ASSUME NEW T, NEW kinds, NEW r \in PageRequests(T, kinds), NEW n \in Nat,
           NEW S \in SUBSET (1 .. n), S = Rows(r.scope),
           \A x \in S : ItemOf(r.scope, x) \in T /\ ItemOf(r.scope, x).id = x
    PROVE  LET a == Reply(r)
           IN  /\ a \in PageRequests(T, kinds)
               /\ a.fresh = r.fresh /\ a.scope = r.scope /\ a.cursor = r.cursor
               /\ AnswerSoundOf(a, n)
               /\ a.on = "ok" => \A x \in S : Reaches(a, x) => HasId(a.items, x)
<1> DEFINE rows == PageOf(S, r.cursor)
           next == NextOf(S, r.cursor)
           items == [i \in DOMAIN rows |-> ItemOf(r.scope, rows[i])]
           missing == [r EXCEPT !.on = "missing"]
           given == [r EXCEPT !.on = "ok", !.items = items, !.next = next]
<1>1. /\ r.fresh \in BOOLEAN /\ r.scope \in Scopes(kinds) /\ r.cursor \in Nat
      /\ r.items \in Seq(T) /\ r.next \in Nat
  BY DEF PageRequests
<1>2. /\ rows \in Seq(S) /\ next \in Nat
      /\ \A i, j \in DOMAIN rows : i < j => rows[i] > rows[j]
      /\ next # 0 => rows # <<>> /\ rows[Len(rows)] = next
      /\ r.cursor # 0 => \A i \in DOMAIN rows : rows[i] < r.cursor
      /\ \A x \in S : x >= next /\ (r.cursor # 0 => x < r.cursor) =>
           \E i \in DOMAIN rows : rows[i] = x
  BY <1>1, PageHolds
<1>3. Reply(r) \in {missing, given}
  BY DEF Reply
<1> HIDE DEF rows, next
<1>4. DOMAIN rows = 1 .. Len(rows) /\ Len(rows) \in Nat /\ \A i \in DOMAIN rows : rows[i] \in S
  BY <1>2, ElementOfSeq
<1>5. /\ items \in Seq(T) /\ DOMAIN items = DOMAIN rows /\ Len(items) = Len(rows)
      /\ \A i \in DOMAIN items : items[i].id = rows[i] /\ rows[i] \in S
  <2>1. \A i \in DOMAIN rows : ItemOf(r.scope, rows[i]) \in T
                               /\ ItemOf(r.scope, rows[i]).id = rows[i]
    BY <1>4
  <2>2. items \in [1 .. Len(rows) -> T]
    BY <1>4, <2>1
  <2>3. QED BY <1>4, <2>1, <2>2
<1> HIDE DEF items
<1>6. /\ missing \in PageRequests(T, kinds) /\ missing.fresh = r.fresh
      /\ missing.scope = r.scope /\ missing.cursor = r.cursor /\ missing.on = "missing"
  BY DEF PageRequests
<1>7. /\ given \in PageRequests(T, kinds) /\ given.fresh = r.fresh
      /\ given.scope = r.scope /\ given.cursor = r.cursor /\ given.on = "ok"
      /\ given.items = items /\ given.next = next
  BY <1>2, <1>5 DEF PageRequests
<1> HIDE DEF given, missing
<1>8. Falling(items, n)
  <2>1. \A i \in DOMAIN items : items[i].id \in 1 .. n
    BY <1>5
  <2>2. \A i, j \in DOMAIN items : i < j => items[i].id > items[j].id
    BY <1>2, <1>5
  <2>3. QED BY <2>1, <2>2 DEF Falling
<1>9. LastIs(items, next)
  <2>1. SUFFICES ASSUME next # 0 PROVE items # <<>> /\ items[Len(items)].id = next
    BY DEF LastIs
  <2>2. Len(rows) # 0 /\ Len(rows) \in DOMAIN rows
    <3>1. Len(rows) # 0
      BY <1>2, <2>1, EmptySeq
    <3>2. QED BY <1>4, <3>1
  <2>3. items # <<>>
    BY <1>5, <2>2, EmptySeq
  <2>4. QED BY <1>2, <1>5, <2>1, <2>2, <2>3
<1>10. r.cursor # 0 => \A i \in DOMAIN items : items[i].id < r.cursor
  BY <1>2, <1>5
<1>11. ASSUME NEW x \in S, Reaches(given, x) PROVE HasId(items, x)
  <2>1. x >= next /\ (r.cursor # 0 => x < r.cursor)
    BY <1>7, <1>11 DEF Reaches
  <2>2. PICK i \in DOMAIN rows : rows[i] = x
    BY <1>2, <2>1
  <2>3. QED BY <1>5, <2>2 DEF HasId
<1>12. AnswerSoundOf(given, n) /\ AnswerSoundOf(missing, n)
  BY <1>6, <1>7, <1>8, <1>9, <1>10 DEF AnswerSoundOf
<1>13. QED BY <1>3, <1>6, <1>7, <1>11, <1>12

(* A request of a list is answered.                                        *)
LEMMA ServedSound ==
    ASSUME NEW T, NEW kinds, NEW p \in Pages(T, kinds), NEW n \in Nat, NEW kind,
           NEW ids, ListSound(p, kind, n, ids), NEW r \in p.reqs,
           NEW S \in SUBSET (1 .. n), S = Rows(r.scope),
           Shows(r.scope, kind) => ids \subseteq S,
           \A x \in S : ItemOf(r.scope, x) \in T /\ ItemOf(r.scope, x).id = x
    PROVE  LET d == [p EXCEPT !.reqs = (@ \ {r}) \cup {Reply(r)}]
           IN  d \in Pages(T, kinds) /\ ListSound(d, kind, n, ids)
<1> DEFINE a == Reply(r)
           reqs == (p.reqs \ {r}) \cup {a}
           d == [p EXCEPT !.reqs = reqs]
<1>1. /\ p.items \in Seq(T) /\ p.scope \in Scopes(kinds) /\ p.cursor \in Nat
      /\ p.reqs \in SUBSET PageRequests(T, kinds) /\ p.failed \in BOOLEAN
      /\ r \in PageRequests(T, kinds)
  BY DEF Pages
<1>2. /\ a \in PageRequests(T, kinds)
      /\ a.fresh = r.fresh /\ a.scope = r.scope /\ a.cursor = r.cursor
      /\ AnswerSoundOf(a, n)
      /\ a.on = "ok" => \A x \in S : Reaches(a, x) => HasId(a.items, x)
  BY <1>1, AnswerSoundly
<1> HIDE DEF a
<1>3. reqs \in SUBSET PageRequests(T, kinds)
  BY <1>1, <1>2
<1>4. /\ d \in Pages(T, kinds) /\ d.scope = p.scope /\ d.items = p.items
      /\ d.cursor = p.cursor /\ d.reqs = reqs
  BY <1>3 DEF Pages
<1> HIDE DEF d
<1>5. PageSound(d, n)
  <2>1. \A q \in reqs : AnswerSoundOf(q, n)
    BY <1>2 DEF ListSound, PageSound
  <2>2. \A q \in reqs : q.fresh => /\ q.scope = p.scope /\ q.cursor = p.cursor
                                   /\ q.cursor = 0 => p.items = <<>>
    BY <1>2 DEF ListSound, PageSound
  <2>3. \A q, s \in reqs : q.fresh /\ s.fresh => q = s
    BY <1>2 DEF ListSound, PageSound
  <2>4. QED BY <1>4, <2>1, <2>2, <2>3 DEF ListSound, PageSound
<1>6. ASSUME Shows(p.scope, kind) PROVE Filled(d, ids)
  <2>1. \A q \in reqs : q.fresh /\ q.on = "ok" =>
           \A x \in ids : Reaches(q, x) => HasId(q.items, x)
    <3>1. SUFFICES ASSUME NEW q \in reqs, q.fresh, q.on = "ok", NEW x \in ids, Reaches(q, x)
                   PROVE  HasId(q.items, x)
      OBVIOUS
    <3>2. CASE q = a
      <4>1. Shows(r.scope, kind)
        BY <1>2, <1>6, <3>1, <3>2 DEF ListSound, PageSound
      <4>2. QED BY <1>2, <3>1, <3>2, <4>1
    <3>3. CASE q # a
      BY <1>6, <3>1, <3>3 DEF ListSound, Filled
    <3>4. QED BY <3>2, <3>3
  <2>2. QED BY <1>4, <1>6, <2>1 DEF ListSound, Filled
<1>7. QED BY <1>4, <1>5, <1>6 DEF ListSound, d, a

-----------------------------------------------------------------------------
(* The lists of the articles: saved ones, or those of a topic.             *)
ArticleKinds == {"nothing", "articles", "topic"}
ArticleItems == {[NoItem EXCEPT !.id = a] : a \in ArticleIds}

LEMMA ServeTopicsSound ==
    ASSUME TablesSound, NEW p \in Pages(Told, {"topics"}),
           ListSound(p, "topics", issued, Live), NEW r \in p.reqs
    PROVE  LET d == [p EXCEPT !.reqs = (@ \ {r}) \cup {Reply(r)}]
           IN  d \in Pages(Told, {"topics"}) /\ ListSound(d, "topics", issued, Live)
<1> DEFINE S == Rows(r.scope)
<1>1. r.scope.of = "topics"
  BY DEF Pages, PageRequests, Scopes
<1>2. S = {t \in Live : TopicSays(t, r.scope.query)}
  BY <1>1 DEF Rows
<1>3. issued \in Nat /\ S \in SUBSET (1 .. issued)
  <2>1. issued \in Nat /\ Live \subseteq 1 .. issued
    BY StoreAssumption, SMT DEF TablesSound
  <2>2. QED BY <1>2, <2>1
<1>4. Shows(r.scope, "topics") => Live \subseteq S
  BY <1>2 DEF Shows, TopicSays
<1>5. \A x \in S : ItemOf(r.scope, x) \in Told /\ ItemOf(r.scope, x).id = x
  BY <1>1, <1>2, DtoTold DEF ItemOf
<1> HIDE DEF S
<1>6. S = Rows(r.scope)
  BY DEF S
<1>7. QED BY <1>3, <1>4, <1>5, <1>6, ServedSound

LEMMA ServeArticlesSound ==
    ASSUME TablesSound, NEW p \in Pages(ArticleItems, ArticleKinds),
           ListSound(p, "articles", arrived, articles), NEW r \in p.reqs
    PROVE  LET d == [p EXCEPT !.reqs = (@ \ {r}) \cup {Reply(r)}]
           IN  d \in Pages(ArticleItems, ArticleKinds)
               /\ ListSound(d, "articles", arrived, articles)
<1> DEFINE S == Rows(r.scope)
<1>1. r.scope.of \in ArticleKinds
  BY DEF Pages, PageRequests, Scopes
<1>2. S \subseteq articles
  BY <1>1 DEF Rows, ArticleKinds
<1>3. arrived \in Nat /\ S \in SUBSET (1 .. arrived) /\ S \subseteq ArticleIds
  <2>1. arrived \in Nat /\ arrived <= MaxArticle /\ articles \subseteq 1 .. arrived
    BY StoreAssumption, SMT DEF TablesSound
  <2>2. 1 .. arrived \subseteq ArticleIds
    BY <2>1, StoreAssumption, SMT DEF ArticleIds
  <2>3. QED BY <1>2, <2>1, <2>2
<1>4. Shows(r.scope, "articles") => articles \subseteq S
  BY DEF Shows, Rows
<1>5. \A x \in S : ItemOf(r.scope, x) \in ArticleItems /\ ItemOf(r.scope, x).id = x
  BY <1>1, <1>3 DEF ItemOf, ArticleItems, ArticleKinds, NoItem
<1> HIDE DEF S
<1>6. S = Rows(r.scope)
  BY DEF S
<1>7. QED BY <1>3, <1>4, <1>5, <1>6, ServedSound

-----------------------------------------------------------------------------
(* The screen.  T is what it was told of topics.                           *)
Ids(T) == {n \in 0 .. MaxTopic : [NoItem EXCEPT !.id = n] \in T}

OpsOn(T) == {op \in Ops : op.base \in T}

WorkKinds == {"none", "save", "latest", "delete", "unlink", "link", "members"}

Works(T) == [kind : WorkKinds, todo : SUBSET OpsOn(T), failed : SUBSET Ops, item : T]

Editors(T) == [open : BOOLEAN, base : T, name : Names \cup {""}, text : Texts,
               name0 : Names \cup {""}, text0 : Texts]

MemberLoads(T) == [on : {"no", "sent", "ok", "missing"}, got : SUBSET Ids(T),
                   cursor : Nat, items : Seq(Ids(T)), next : Nat]

Refreshes(T) == {r \in [fresh : BOOLEAN, id : 0 .. MaxTopic,
                        on : {"sent", "ok", "missing"}, item : T] :
                    r.on = "ok" => r.item.id = r.id}

Screens(T) ==
    [mode : {"browse", "choose"}, open : BOOLEAN, active : BOOLEAN,
     topic : T, picker : BOOLEAN, selected : SUBSET (0 .. MaxArticle),
     editor : Editors(T), deleting : BOOLEAN, leaving : BOOLEAN,
     conflict : BOOLEAN, work : Works(T),
     kept : SUBSET Ids(T), chosen : SUBSET Ids(T),
     member : {"loading", "ready", "failed"}, load : MemberLoads(T),
     refreshes : SUBSET Refreshes(T),
     topicTyped : Searches, topicQuery : Searches,
     articleTyped : Searches, articleQuery : Searches,
     topics : Pages(T, {"topics"}),
     articles : Pages(ArticleItems, ArticleKinds)]

Budgets ==
    [mode : {"browse", "choose"}, work : Nat, edit : Nat, pick : Nat,
     list : Nat, search : Nat, visit : Nat, other : Nat, fault : Nat,
     saving : BOOLEAN, names : SUBSET Names, theirs : SUBSET Kinds,
     works : SUBSET {"save", "latest", "delete", "unlink", "link", "members"}]

(* Both lists are sound, of n topics and m articles ever, of which those   *)
(* of live and those of rows exist.                                        *)
ListsOf(u, n, live, m, rows) ==
    /\ ListSound(u.topics, "topics", n, live)
    /\ ListSound(u.articles, "articles", m, rows)

Knows(T) ==
    /\ T \subseteq Items /\ NoItem \in T
    /\ \A i \in T : [NoItem EXCEPT !.id = i.id] \in T
    /\ \A i \in T : i.id = 0 => i = NoItem

(* u and d differ in their lists and searches at most.                     *)
Alike(u, d) ==
    /\ d.mode = u.mode /\ d.open = u.open /\ d.active = u.active
    /\ d.topic.id = u.topic.id /\ d.picker = u.picker /\ d.selected = u.selected
    /\ d.editor = u.editor /\ d.deleting = u.deleting /\ d.leaving = u.leaving
    /\ d.conflict = u.conflict /\ d.work = u.work
    /\ d.kept = u.kept /\ d.chosen = u.chosen
    /\ d.member = u.member /\ d.load = u.load

SameLists(u, d) == d.topics = u.topics /\ d.articles = u.articles

LEMMA ToldKnows == ASSUME TablesSound PROVE Knows(Told)
<1>1. Told \subseteq Items /\ NoItem \in Told /\ \A i \in Told : i.id = 0 => i = NoItem
  BY NoItemTold DEF Told
<1>2. ASSUME NEW i \in Told PROVE [NoItem EXCEPT !.id = i.id] \in Told
  <2> DEFINE b == [NoItem EXCEPT !.id = i.id]
  <2>1. i \in Items /\ i.id \in 0 .. MaxTopic /\ i.id <= issued
    BY DEF Told, Items, Genuine
  <2>2. b \in Items /\ b.id = i.id /\ b.rev = 0
    BY <2>1, Defaults, SMT DEF NoItem, Items
  <2>3. i.id = 0 => b = NoItem
    BY DEF NoItem
  <2> HIDE DEF b
  <2>4. b.id \in Live => topics[b.id].rev # 0 /\ topics[b.id].rev \in Nat
    BY SMT DEF TablesSound, Live, Topics
  <2>5. Genuine(b)
    BY <2>1, <2>2, <2>4 DEF Genuine
  <2>6. QED BY <2>2, <2>3, <2>5 DEF Told, b
<1>3. QED BY <1>1, <1>2 DEF Knows

LEMMA IdsOfTold ==
    ASSUME NEW T, Knows(T), NEW i \in T
    PROVE  i.id \in Ids(T) /\ i.id \in 0 .. MaxTopic /\ i.name \in Names /\ i.text \in Texts
  BY DEF Knows, Ids, Items

LEMMA NothingKnown ==
    ASSUME NEW T, Knows(T)
    PROVE  /\ NoItem \in T /\ NoEditor \in Editors(T) /\ NoWork \in Works(T)
           /\ NoLoad \in MemberLoads(T)
           /\ [NoLoad EXCEPT !.on = "sent"] \in MemberLoads(T)
           /\ NoScope \in Scopes(ArticleKinds)
           /\ NoPage \in Pages(ArticleItems, ArticleKinds)
<1>1. NoItem \in T /\ "" \in Texts /\ "" \in Searches
  BY ScreenAssumption DEF Knows
<1>2. NoEditor \in Editors(T) /\ NoWork \in Works(T)
  BY <1>1 DEF NoEditor, Editors, NoWork, Works, WorkKinds
<1>3. NoLoad \in MemberLoads(T) /\ [NoLoad EXCEPT !.on = "sent"] \in MemberLoads(T)
  <2>1. <<>> \in Seq(Ids(T)) /\ 0 \in Nat /\ {} \in SUBSET Ids(T)
    OBVIOUS
  <2> HIDE DEF Ids
  <2>2. QED BY <2>1 DEF NoLoad, MemberLoads
<1>4. NoScope \in Scopes(ArticleKinds)
  <2>1. 0 \in 0 .. MaxTopic
    BY StoreAssumption
  <2>2. QED BY <1>1, <2>1 DEF NoScope, Scope, Scopes, ArticleKinds
<1>5. NoPage \in Pages(ArticleItems, ArticleKinds)
  BY <1>4 DEF NoPage, Pages
<1>6. QED BY <1>1, <1>2, <1>3, <1>4, <1>5

LEMMA ScopesFit ==
    ASSUME NEW T, Knows(T), NEW u \in Screens(T)
    PROVE  TopicScope(u) \in Scopes({"topics"}) /\ ArticleScope(u) \in Scopes(ArticleKinds)
<1>1. /\ u.topicQuery \in Searches /\ u.articleQuery \in Searches /\ u.topic \in T
      /\ 0 \in 0 .. MaxTopic
  BY StoreAssumption DEF Screens
<1>2. u.topic.id \in 0 .. MaxTopic
  BY <1>1, IdsOfTold
<1>3. TopicScope(u) \in Scopes({"topics"})
  BY <1>1 DEF TopicScope, Scope, Scopes
<1>4. /\ Scope("articles", u.topic.id, u.articleQuery) \in Scopes(ArticleKinds)
      /\ Scope("topic", u.topic.id, u.articleQuery) \in Scopes(ArticleKinds)
  BY <1>1, <1>2 DEF Scope, Scopes, ArticleKinds
<1>5. ArticleScope(u) \in Scopes(ArticleKinds)
  BY <1>4, NothingKnown DEF ArticleScope
<1>6. QED BY <1>3, <1>5

LEMMA RenderedFits ==
    ASSUME NEW T, Knows(T), NEW u \in Screens(T), NEW n \in Nat, NEW m \in Nat,
           NEW live, NEW rows, ListsOf(u, n, live, m, rows)
    PROVE  /\ Rendered(u) \in Screens(T) /\ Alike(u, Rendered(u))
           /\ ListsOf(Rendered(u), n, live, m, rows)
           /\ Rendered(u).topic = u.topic
<1> DEFINE p == Follow(u.topics, TopicScope(u))
           q == Follow(u.articles, ArticleScope(u))
<1>1. u.topics \in Pages(T, {"topics"}) /\ u.articles \in Pages(ArticleItems, ArticleKinds)
  BY DEF Screens
<1>2. p \in Pages(T, {"topics"}) /\ ListSound(p, "topics", n, live)
  BY <1>1, ScopesFit, FollowSound DEF ListsOf
<1>3. q \in Pages(ArticleItems, ArticleKinds) /\ ListSound(q, "articles", m, rows)
  BY <1>1, ScopesFit, FollowSound DEF ListsOf
<1>4. Rendered(u) = [u EXCEPT !.topics = p, !.articles = q]
  BY DEF Rendered
<1> HIDE DEF p, q
<1> DEFINE d == Rendered(u)
<1> HIDE DEF d
<1>5. d = [u EXCEPT !.topics = p, !.articles = q]
  BY <1>4 DEF d
<1>6. /\ d \in Screens(T) /\ d.topics = p /\ d.articles = q /\ Alike(u, d)
      /\ d.topic = u.topic
  BY <1>2, <1>3, <1>5 DEF Screens, Alike
<1>7. ListsOf(d, n, live, m, rows)
  BY <1>2, <1>3, <1>6 DEF ListsOf
<1>8. QED BY <1>6, <1>7 DEF d

LEMMA BumpFits ==
    ASSUME NEW T, NEW u \in Screens(T)
    PROVE  /\ Bump(u) \in Screens(T) /\ Alike(u, Bump(u)) /\ SameLists(u, Bump(u))
           /\ Bump(u).topic = u.topic
<1> DEFINE old == {[r EXCEPT !.fresh = FALSE] : r \in u.refreshes}
<1>1. u.refreshes \in SUBSET Refreshes(T)
  BY DEF Screens
<1>2. old \in SUBSET Refreshes(T)
  <2>1. SUFFICES ASSUME NEW r \in u.refreshes PROVE [r EXCEPT !.fresh = FALSE] \in Refreshes(T)
    OBVIOUS
  <2>2. r \in Refreshes(T)
    BY <1>1
  <2>3. QED BY <2>2 DEF Refreshes
<1>3. Bump(u) = [u EXCEPT !.refreshes = old]
  BY DEF Bump
<1> HIDE DEF old
<1>4. QED BY <1>2, <1>3 DEF Screens, Alike, SameLists

-----------------------------------------------------------------------------
(* What the parts of the screen exclude.                                   *)
Apart(u) ==
    /\ u.picker => /\ ~Choosing(u) /\ u.topic.id # 0
                   /\ ~u.editor.open /\ ~u.deleting
    /\ ~Choosing(u) => u.kept = u.chosen /\ u.load.on = "no"
    /\ Choosing(u) => u.topic.id = 0
    /\ Choosing(u) /\ u.editor.open => u.editor.base = NoItem /\ u.member # "loading"
    /\ u.load.on # "no" => u.member = "loading"
    /\ u.conflict => u.editor.open /\ u.editor.base # NoItem
    /\ ~u.editor.open => u.editor = NoEditor

AtWork(u) == Busy(u) => u.open /\ u.active /\ ~u.leaving /\ ~u.conflict

(* A call that the work under way has to make, has made in vain, is        *)
(* making, or has made.                                                    *)
Handled(u, x, op, done) ==
    x \in u.work.todo \cup u.work.failed \cup {op} \/ Piece(x) \in done

(* What is under way, with the call op.                                    *)
Doing(u, op, done) ==
    LET w == u.work
    IN  /\ w.kind = "save" => /\ u.editor.open /\ w.todo = {} /\ w.failed = {}
                              /\ op = SaveOp(u.editor)
        /\ w.kind = "latest" => /\ u.editor.open /\ u.editor.base # NoItem
                                /\ w.todo = {} /\ w.failed = {}
                                /\ op.kind = "get" /\ op.base.id = u.editor.base.id
        /\ w.kind \in {"delete", "unlink"} => /\ ~u.picker /\ u.topic.id # 0
                                              /\ w.todo = {}
        /\ w.kind = "link" =>
             /\ u.picker /\ w.item.id = u.topic.id
             /\ \A x \in w.todo \cup {op} : x.kind = "link" /\ x.base.id = u.topic.id
             /\ \A x \in AddOps(u) : Handled(u, x, op, done)
        /\ w.kind = "members" =>
             /\ Choosing(u) /\ u.member = "ready"
             /\ \A x \in MemberOps(u) : Handled(u, x, op, done)

WorkFits(u, call, done) ==
    /\ Busy(u) <=> call.at # "idle"
    /\ Apart(u) /\ AtWork(u) /\ Doing(u, call.op, done)
    /\ call.at = "done" /\ call.how = "ok" => Piece(call.op) \in done
    /\ Choosing(u) /\ u.work.kind = "save" /\ call.at = "done" /\ call.how = "ok"
         => call.item.id \notin u.kept

(* The work the user has not saved, as calls.                              *)
Edit(u) == IF EditorDirty(u) THEN {SaveOp(u.editor)} ELSE {}
Picks(u) == IF u.picker THEN AddOps(u) ELSE {}

LEMMA UnsavedParts ==
    ASSUME NEW u
    PROVE  Unsaved(u) = IF ~u.open THEN {}
                        ELSE {Piece(x) : x \in Edit(u)} \cup {Piece(x) : x \in Picks(u)}
                             \cup {Piece(x) : x \in MemberOps(u)}
  BY Zenon DEF Unsaved, Edit, Picks

(* Nothing gets lost if every part of it stays or is done.                 *)
LEMMA PartsKept ==
    ASSUME NEW u, NEW d, NEW done, u.open => d.open,
           u.open => \A x \in Edit(u) : Piece(x) \in {Piece(y) : y \in Edit(d)} \cup done,
           u.open => \A x \in Picks(u) : x \in Picks(d) \/ Piece(x) \in done,
           u.open => \A x \in MemberOps(u) : x \in MemberOps(d) \/ Piece(x) \in done
    PROVE  Unsaved(u) \ Unsaved(d) \subseteq done
<1>1. CASE ~u.open
  BY <1>1, UnsavedParts
<1>2. CASE u.open
  <2>1. /\ Unsaved(u) = {Piece(x) : x \in Edit(u)} \cup {Piece(x) : x \in Picks(u)}
                        \cup {Piece(x) : x \in MemberOps(u)}
        /\ Unsaved(d) = {Piece(x) : x \in Edit(d)} \cup {Piece(x) : x \in Picks(d)}
                        \cup {Piece(x) : x \in MemberOps(d)}
    BY <1>2, UnsavedParts
  <2>2. QED BY <1>2, <2>1
<1>3. QED BY <1>1, <1>2

LEMMA AlikeFits ==
    ASSUME NEW T, Knows(T), NEW u \in Screens(T), NEW d \in Screens(T), Alike(u, d)
    PROVE  /\ Unsaved(d) = Unsaved(u)
           /\ \A call, done : WorkFits(u, call, done) => WorkFits(d, call, done)
<1>1. AddOps(d) = AddOps(u) /\ MemberOps(d) = MemberOps(u)
  BY DEF Alike, AddOps, MemberOps, LinkOp
<1>2. EditorDirty(d) <=> EditorDirty(u)
  BY DEF Alike, EditorDirty
<1>3. Edit(d) = Edit(u) /\ Picks(d) = Picks(u) /\ d.open = u.open
  BY <1>1, <1>2 DEF Alike, Edit, Picks
<1>4. Unsaved(d) = Unsaved(u)
  BY <1>1, <1>3, UnsavedParts
<1>5. Apart(u) => Apart(d)
  BY DEF Alike, Apart, Choosing
<1>6. /\ AtWork(u) => AtWork(d)
      /\ Busy(u) <=> Busy(d)
  BY DEF Alike, AtWork, Busy
<1>7. \A op, done : Doing(u, op, done) => Doing(d, op, done)
  BY <1>1 DEF Alike, Doing, Handled, Choosing
<1>8. QED BY <1>4, <1>5, <1>6, <1>7 DEF WorkFits, Alike, Choosing

-----------------------------------------------------------------------------
(* Leaving.                                                                *)
LEMMA GoBackFits ==
    ASSUME NEW T, Knows(T), NEW u \in Screens(T), Apart(u)
    PROVE  LET d == GoBack(u)
           IN  /\ d \in Screens(T) /\ SameLists(u, d) /\ Apart(d) /\ d.work = u.work
               /\ ~AsksFirst(u) => Unsaved(u) \ Unsaved(d) \subseteq {}
<1> DEFINE b == Bump(u)
           clear == [b EXCEPT !.leaving = FALSE, !.conflict = FALSE]
<1>1. b \in Screens(T) /\ Alike(u, b) /\ SameLists(u, b) /\ b.topic = u.topic
  BY BumpFits
<1>2. clear = [Bump(u) EXCEPT !.leaving = FALSE, !.conflict = FALSE]
  OBVIOUS
<1> HIDE DEF b
<1>3. /\ clear \in Screens(T) /\ SameLists(u, clear) /\ clear.leaving = FALSE
      /\ clear.conflict = FALSE /\ clear.topic = u.topic
      /\ clear.mode = u.mode /\ clear.open = u.open /\ clear.picker = u.picker
      /\ clear.selected = u.selected /\ clear.editor = u.editor
      /\ clear.deleting = u.deleting /\ clear.work = u.work /\ clear.kept = u.kept
      /\ clear.chosen = u.chosen /\ clear.member = u.member /\ clear.load = u.load
  BY <1>1 DEF Screens, Alike, SameLists
<1> HIDE DEF clear
<1>4. NoEditor.open = FALSE /\ NoItem.id = 0
  BY DEF NoEditor, NoItem
<1>5. Open(u) <=> u.topic.id # 0
  BY <1>4 DEF Open, Knows, Screens
<1> DEFINE d == GoBack(u)
<1> HIDE DEF d
<1>6. CASE u.editor.open
  <2>1. d = [clear EXCEPT !.editor = NoEditor]
    BY <1>2, <1>6 DEF GoBack, d, clear, b
  <2>2. /\ d \in Screens(T) /\ SameLists(u, d) /\ d.work = u.work /\ d.editor = NoEditor
        /\ d.conflict = FALSE /\ d.topic = u.topic
        /\ d.mode = u.mode /\ d.open = u.open /\ d.picker = u.picker
        /\ d.selected = u.selected /\ d.kept = u.kept
        /\ d.chosen = u.chosen /\ d.member = u.member /\ d.load = u.load
        /\ d.deleting = u.deleting
    BY <1>3, <2>1, NothingKnown DEF Screens, SameLists
  <2>3. Apart(d)
    BY <1>4, <1>6, <2>2 DEF Apart, Choosing
  <2>4. Picks(d) = Picks(u) /\ MemberOps(d) = MemberOps(u)
    BY <2>2 DEF Picks, AddOps, MemberOps
  <2>5. ~AsksFirst(u) => Edit(u) = {}
    BY DEF AsksFirst, Edit
  <2>6. ~AsksFirst(u) => Unsaved(u) \ Unsaved(d) \subseteq {}
    BY <2>2, <2>4, <2>5, PartsKept
  <2>7. QED BY <2>2, <2>3, <2>6 DEF d
<1>7. CASE ~u.editor.open /\ u.deleting
  <2>1. d = [clear EXCEPT !.deleting = FALSE]
    BY <1>2, <1>7 DEF GoBack, d, clear, b
  <2>2. /\ d \in Screens(T) /\ SameLists(u, d) /\ d.work = u.work /\ d.editor = u.editor
        /\ d.conflict = FALSE /\ d.topic = u.topic
        /\ d.mode = u.mode /\ d.open = u.open /\ d.picker = u.picker
        /\ d.selected = u.selected /\ d.kept = u.kept
        /\ d.chosen = u.chosen /\ d.member = u.member /\ d.load = u.load
        /\ d.deleting = FALSE
    BY <1>3, <2>1 DEF Screens, SameLists
  <2>3. Apart(d)
    BY <1>4, <1>7, <2>2 DEF Apart, Choosing
  <2>4. Picks(d) = Picks(u) /\ MemberOps(d) = MemberOps(u) /\ Edit(d) = Edit(u)
    BY <2>2 DEF Picks, AddOps, MemberOps, Edit, EditorDirty
  <2>5. ~AsksFirst(u) => Unsaved(u) \ Unsaved(d) \subseteq {}
    BY <2>2, <2>4, PartsKept
  <2>6. QED BY <2>2, <2>3, <2>5 DEF d
<1>8. CASE ~u.editor.open /\ ~u.deleting /\ u.picker
  <2>1. d = [clear EXCEPT !.picker = FALSE, !.selected = {}, !.articleTyped = ""]
    BY <1>2, <1>8 DEF GoBack, d, clear, b
  <2>2. /\ d \in Screens(T) /\ SameLists(u, d) /\ d.work = u.work /\ d.editor = u.editor
        /\ d.conflict = FALSE /\ d.topic = u.topic
        /\ d.mode = u.mode /\ d.open = u.open /\ d.picker = FALSE
        /\ d.kept = u.kept
        /\ d.chosen = u.chosen /\ d.member = u.member /\ d.load = u.load
    BY <1>3, <2>1, ScreenAssumption DEF Screens, SameLists
  <2>3. Apart(d)
    BY <1>4, <1>8, <2>2 DEF Apart, Choosing
  <2>4. MemberOps(d) = MemberOps(u) /\ Edit(d) = Edit(u)
    BY <2>2 DEF MemberOps, Edit, EditorDirty
  <2>5. ~AsksFirst(u) => Picks(u) = {}
    BY <1>8 DEF AsksFirst, Picks, AddOps
  <2>6. ~AsksFirst(u) => Unsaved(u) \ Unsaved(d) \subseteq {}
    BY <2>2, <2>4, <2>5, PartsKept
  <2>7. QED BY <2>2, <2>3, <2>6 DEF d
<1>9. CASE ~u.editor.open /\ ~u.deleting /\ ~u.picker /\ Open(u)
  <2>1. d = [clear EXCEPT !.topic = NoItem, !.articleTyped = ""]
    BY <1>2, <1>9 DEF GoBack, d, clear, b
  <2>2. /\ d \in Screens(T) /\ SameLists(u, d) /\ d.work = u.work /\ d.editor = u.editor
        /\ d.conflict = FALSE /\ d.topic = NoItem
        /\ d.mode = u.mode /\ d.open = u.open /\ d.picker = FALSE
        /\ d.kept = u.kept
        /\ d.chosen = u.chosen /\ d.member = u.member /\ d.load = u.load
    BY <1>3, <1>9, <2>1, NothingKnown, ScreenAssumption DEF Screens, SameLists
  <2>3. Apart(d)
    BY <1>4, <1>9, <2>2 DEF Apart, Choosing
  <2>4. MemberOps(d) = MemberOps(u) /\ Edit(d) = Edit(u) /\ Picks(u) = {}
    BY <1>9, <2>2 DEF MemberOps, Edit, EditorDirty, Picks
  <2>5. ~AsksFirst(u) => Unsaved(u) \ Unsaved(d) \subseteq {}
    BY <2>2, <2>4, PartsKept
  <2>6. QED BY <2>2, <2>3, <2>5 DEF d
<1>10. CASE ~u.editor.open /\ ~u.deleting /\ ~u.picker /\ ~Open(u)
  <2>1. d = [clear EXCEPT !.open = FALSE, !.load = NoLoad, !.refreshes = {}]
    BY <1>2, <1>10 DEF GoBack, d, clear, b
  <2>2. /\ d \in Screens(T) /\ SameLists(u, d) /\ d.work = u.work /\ d.editor = u.editor
        /\ d.conflict = FALSE /\ d.topic = u.topic
        /\ d.mode = u.mode /\ d.picker = FALSE
        /\ d.kept = u.kept
        /\ d.chosen = u.chosen /\ d.member = u.member /\ d.load = NoLoad
    BY <1>3, <1>10, <2>1, NothingKnown DEF Screens, SameLists
  <2>3. NoLoad.on = "no"
    BY DEF NoLoad
  <2>4. Apart(d)
    BY <1>4, <1>10, <2>2, <2>3 DEF Apart, Choosing
  <2>5. ASSUME ~AsksFirst(u) PROVE Unsaved(u) = {}
    <3>1. u.kept = u.chosen
      BY <1>10, <2>5 DEF AsksFirst, MembershipDirty, Apart
    <3>2. MemberOps(u) = {} /\ Edit(u) = {} /\ Picks(u) = {}
      BY <1>10, <3>1 DEF MemberOps, Edit, EditorDirty, Picks
    <3>3. QED BY <3>2, UnsavedParts
  <2>6. QED BY <2>2, <2>4, <2>5 DEF d
<1>11. QED BY <1>6, <1>7, <1>8, <1>9, <1>10

LEMMA RequestBackFits ==
    ASSUME NEW T, Knows(T), NEW u \in Screens(T), Apart(u)
    PROVE  LET d == RequestBack(u)
           IN  /\ d \in Screens(T) /\ SameLists(u, d) /\ Apart(d) /\ d.work = u.work
               /\ Unsaved(u) \ Unsaved(d) \subseteq {}
<1> DEFINE d == RequestBack(u)
<1> HIDE DEF d
<1>1. ASSUME NEW x \in BOOLEAN, NEW y \in BOOLEAN,
             d = [u EXCEPT !.leaving = x, !.deleting = y],
             u.picker => ~y
      PROVE  /\ d \in Screens(T) /\ SameLists(u, d) /\ Apart(d) /\ d.work = u.work
             /\ Unsaved(u) \ Unsaved(d) \subseteq {}
  <2>1. /\ d \in Screens(T) /\ SameLists(u, d) /\ d.work = u.work /\ d.editor = u.editor
        /\ d.conflict = u.conflict /\ d.topic = u.topic
        /\ d.mode = u.mode /\ d.open = u.open /\ d.picker = u.picker
        /\ d.selected = u.selected /\ d.kept = u.kept
        /\ d.chosen = u.chosen /\ d.member = u.member /\ d.load = u.load
        /\ d.deleting = y
    BY <1>1 DEF Screens, SameLists
  <2>2. Apart(d)
    BY <1>1, <2>1 DEF Apart, Choosing
  <2>3. Picks(d) = Picks(u) /\ MemberOps(d) = MemberOps(u) /\ Edit(d) = Edit(u)
    BY <2>1 DEF Picks, AddOps, MemberOps, Edit, EditorDirty
  <2>4. QED BY <2>1, <2>2, <2>3, PartsKept
<1>2. u.deleting \in BOOLEAN /\ u.leaving \in BOOLEAN /\ (u.picker => ~u.deleting)
      /\ u = [u EXCEPT !.leaving = u.leaving] /\ u = [u EXCEPT !.deleting = u.deleting]
  BY DEF Screens, Apart
<1>3. CASE u.leaving
  <2>1. d = [u EXCEPT !.leaving = FALSE, !.deleting = u.deleting]
    BY <1>3 DEF RequestBack, d, Screens
  <2>2. QED BY <1>1, <1>2, <2>1 DEF d
<1>4. CASE ~u.leaving /\ u.deleting
  <2>1. d = [u EXCEPT !.leaving = u.leaving, !.deleting = FALSE]
    BY <1>4 DEF RequestBack, d, Screens
  <2>2. QED BY <1>1, <1>2, <2>1 DEF d
<1>5. CASE ~u.leaving /\ ~u.deleting /\ AsksFirst(u)
  <2>1. d = [u EXCEPT !.leaving = TRUE, !.deleting = u.deleting]
    BY <1>5 DEF RequestBack, d, Screens
  <2>2. QED BY <1>1, <1>2, <2>1 DEF d
<1>6. CASE ~u.leaving /\ ~u.deleting /\ ~AsksFirst(u)
  <2>1. d = GoBack(u)
    BY <1>6 DEF RequestBack, d
  <2>2. QED BY <1>6, <2>1, GoBackFits DEF d
<1>7. QED BY <1>3, <1>4, <1>5, <1>6

-----------------------------------------------------------------------------
(* The end of a work.                                                      *)

LEMMA EmptyTyped == "" \in Searches /\ "" \in Texts
  BY ScreenAssumption

(* What is known when the call op of the work of u is answered, or will    *)
(* not be.                                                                 *)
Answering(u, op, done, failed, item) ==
    /\ Apart(u) /\ AtWork(u) /\ Busy(u) /\ Doing(u, op, done)
    /\ \A x : Handled(u, x, op, done) =>
                x \in u.work.todo \/ x \in failed \/ Piece(x) \in done
    /\ u.work.kind = "link" => item.id = u.topic.id
    /\ u.work.kind = "latest" /\ failed = {} => item.id = u.editor.base.id
    /\ u.work.kind = "save" /\ failed = {} => Piece(op) \in done
    /\ Choosing(u) /\ u.work.kind = "save" /\ failed = {} => item.id \notin u.kept

Ending(u, op, done, failed, item) ==
    Answering(u, op, done, failed, item) /\ u.work.todo = {}

LEMMA LinkEnds ==
    ASSUME NEW T, Knows(T), NEW u \in Screens(T), NEW op, NEW done,
           NEW failed \in SUBSET Ops, NEW item \in T,
           Ending(u, op, done, failed, item), u.work.kind = "link"
    PROVE  LET d == AddedArticles(u, failed, item)
           IN  /\ d \in Screens(T) /\ SameLists(u, d) /\ Apart(d) /\ d.work = u.work
               /\ Unsaved(u) \ Unsaved(d) \subseteq done
<1> DEFINE d == AddedArticles(u, failed, item)
<1>0. d = AddedArticles(u, failed, item)
  OBVIOUS
<1> HIDE DEF d
<1> DEFINE remaining == {x.article : x \in failed}
<1>1. remaining \in SUBSET (0 .. MaxArticle)
  BY DEF Ops
<1>2. u.picker /\ u.open /\ ~Choosing(u) /\ ~u.editor.open /\ u.topic.id # 0
      /\ ~u.conflict /\ item.id = u.topic.id
      /\ \A x \in AddOps(u) : x \in failed \/ Piece(x) \in done
  BY DEF Ending, Answering, Doing, Apart, AtWork
<1>3. ASSUME NEW x \in Picks(u), x \in failed
      PROVE  x.article \in remaining /\ x = LinkOp("link", u.topic.id, x.article)
  <2>1. PICK a \in u.selected : x = LinkOp("link", u.topic.id, a)
    BY <1>2 DEF Picks, AddOps
  <2>2. x.article = a
    BY <2>1 DEF LinkOp, Op
  <2>3. QED BY <1>3, <2>1, <2>2
<1>4. \A x \in Picks(u) : x \in failed \/ Piece(x) \in done
  BY <1>2 DEF Picks
<1>5. CASE remaining # {}
  <2>1. d = [u EXCEPT !.topic = item, !.selected = remaining]
    BY <1>0, <1>5 DEF AddedArticles
  <2> HIDE DEF remaining
  <2>2. /\ d \in Screens(T) /\ SameLists(u, d) /\ d.work = u.work /\ d.editor = u.editor
        /\ d.conflict = u.conflict /\ d.topic = item /\ d.selected = remaining
        /\ d.mode = u.mode /\ d.open = u.open /\ d.picker = u.picker
        /\ d.kept = u.kept /\ d.deleting = u.deleting
        /\ d.chosen = u.chosen /\ d.member = u.member /\ d.load = u.load
    BY <1>1, <2>1 DEF Screens, SameLists
  <2>3. Apart(d)
    BY <1>2, <2>2 DEF Ending, Answering, Apart, Choosing
  <2>4. MemberOps(d) = MemberOps(u) /\ Edit(d) = Edit(u)
    BY <2>2 DEF MemberOps, Edit, EditorDirty
  <2>5. Picks(d) = {LinkOp("link", u.topic.id, a) : a \in remaining}
    BY <1>2, <2>2 DEF Picks, AddOps
  <2>6. \A x \in Picks(u) : x \in Picks(d) \/ Piece(x) \in done
    BY <1>3, <1>4, <2>5
  <2>7. Unsaved(u) \ Unsaved(d) \subseteq done
    BY <2>2, <2>4, <2>6, PartsKept
  <2>8. QED BY <2>2, <2>3, <2>7 DEF d
<1>6. CASE remaining = {}
  <2>1. d = [u EXCEPT !.topic = item, !.selected = {}, !.picker = FALSE,
                      !.articleTyped = ""]
    BY <1>0, <1>6 DEF AddedArticles
  <2>2. /\ d \in Screens(T) /\ SameLists(u, d) /\ d.work = u.work /\ d.editor = u.editor
        /\ d.conflict = u.conflict /\ d.topic = item
        /\ d.mode = u.mode /\ d.open = u.open /\ d.picker = FALSE
        /\ d.kept = u.kept
        /\ d.chosen = u.chosen /\ d.member = u.member /\ d.load = u.load
    <3>1. d \in Screens(T)
      BY <2>1, EmptyTyped DEF Screens
    <3>2. SameLists(u, d)
      BY <2>1, EmptyTyped DEF Screens, SameLists
    <3>3. QED BY <2>1, <3>1, <3>2 DEF Screens
  <2>3. Apart(d)
    BY <1>2, <2>2 DEF Ending, Answering, Apart, Choosing
  <2>4. MemberOps(d) = MemberOps(u) /\ Edit(d) = Edit(u)
    BY <2>2 DEF MemberOps, Edit, EditorDirty
  <2>5. \A x \in Picks(u) : Piece(x) \in done
    BY <1>4, <1>6
  <2>6. Unsaved(u) \ Unsaved(d) \subseteq done
    BY <2>2, <2>4, <2>5, PartsKept
  <2>7. QED BY <2>2, <2>3, <2>6 DEF d
<1>7. QED BY <1>5, <1>6 DEF d

LEMMA MembersEnd ==
    ASSUME NEW T, Knows(T), NEW u \in Screens(T), NEW op, NEW done,
           NEW failed \in SUBSET Ops, NEW item \in T,
           Ending(u, op, done, failed, item), u.work.kind = "members",
           NEW d, d = SavedMembers(u, failed)
    PROVE  /\ d \in Screens(T) /\ SameLists(u, d) /\ Apart(d) /\ d.work = u.work
           /\ Unsaved(u) \ Unsaved(d) \subseteq done
<1> DEFINE lost(kind) == {x.base.id : x \in {f \in failed : f.kind = kind}}
           adds == (u.chosen \ u.kept) \ lost("link")
           removes == (u.kept \ u.chosen) \ lost("unlink")
           kept == (u.kept \cup adds) \ removes
<1>1. d = [u EXCEPT !.kept = kept]
  BY DEF SavedMembers
<1>2. Choosing(u) /\ \A x \in MemberOps(u) : x \in failed \/ Piece(x) \in done
  BY DEF Ending, Answering, Doing
<1>3. kept \in SUBSET Ids(T)
  BY DEF Screens
<1>4. ASSUME NEW x \in MemberOps(u), x \in failed
      PROVE  \/ \E t \in u.chosen \ kept : x = LinkOp("link", t, Picked)
             \/ \E t \in kept \ u.chosen : x = LinkOp("unlink", t, Picked)
  <2>1. CASE \E t \in u.chosen \ u.kept : x = LinkOp("link", t, Picked)
    <3>1. PICK t \in u.chosen \ u.kept : x = LinkOp("link", t, Picked)
      BY <2>1
    <3>2. x.kind = "link" /\ x.base.id = t
      BY <3>1 DEF LinkOp, Op, NoItem
    <3>3. t \in lost("link")
      BY <1>4, <3>2
    <3>4. t \in u.chosen \ kept
      BY <3>3
    <3>5. QED BY <3>1, <3>4
  <2>2. CASE \E t \in u.kept \ u.chosen : x = LinkOp("unlink", t, Picked)
    <3>1. PICK t \in u.kept \ u.chosen : x = LinkOp("unlink", t, Picked)
      BY <2>2
    <3>2. x.kind = "unlink" /\ x.base.id = t
      BY <3>1 DEF LinkOp, Op, NoItem
    <3>3. t \in lost("unlink")
      BY <1>4, <3>2
    <3>4. t \in kept \ u.chosen
      BY <3>3
    <3>5. QED BY <3>1, <3>4
  <2>3. QED BY <2>1, <2>2 DEF MemberOps
<1> HIDE DEF kept
<1>5. /\ d \in Screens(T) /\ SameLists(u, d) /\ d.work = u.work /\ d.editor = u.editor
      /\ d.conflict = u.conflict /\ d.topic = u.topic /\ d.selected = u.selected
      /\ d.mode = u.mode /\ d.open = u.open /\ d.picker = u.picker
      /\ d.kept = kept /\ d.deleting = u.deleting
      /\ d.chosen = u.chosen /\ d.member = u.member /\ d.load = u.load
  BY <1>1, <1>3 DEF Screens, SameLists
<1>6. Apart(d)
  BY <1>2, <1>5 DEF Ending, Answering, Apart, Choosing
<1>7. Picks(d) = Picks(u) /\ Edit(d) = Edit(u)
  BY <1>5 DEF Picks, AddOps, Edit, EditorDirty
<1>8. \A x \in MemberOps(u) : x \in MemberOps(d) \/ Piece(x) \in done
  <2>1. MemberOps(d) = {LinkOp("link", t, Picked) : t \in u.chosen \ kept}
                       \cup {LinkOp("unlink", t, Picked) : t \in kept \ u.chosen}
    BY <1>5 DEF MemberOps
  <2>2. QED BY <1>2, <1>4, <2>1
<1>9. QED BY <1>5, <1>6, <1>7, <1>8, PartsKept

LEMMA SaveEnds ==
    ASSUME NEW T, Knows(T), NEW u \in Screens(T), NEW op, NEW done, NEW item \in T,
           Ending(u, op, done, {}, item), u.work.kind = "save",
           NEW d, d = SavedTopic(u, item)
    PROVE  /\ d \in Screens(T) /\ SameLists(u, d) /\ Apart(d) /\ d.work = u.work
           /\ Unsaved(u) \ Unsaved(d) \subseteq done
<1>0. NoEditor \in Editors(T)
  BY NothingKnown
<1>1. /\ u.editor.open /\ ~u.picker /\ ~u.conflict
      /\ op = SaveOp(u.editor) /\ Piece(op) \in done
  BY DEF Ending, Answering, Doing, Apart, AtWork
<1>2. \A x \in Edit(u) : Piece(x) \in done
  BY <1>1 DEF Edit
<1>3. Picks(u) = {} /\ NoEditor.open = FALSE
  BY <1>1 DEF Picks, NoEditor
<1>4. CASE Choosing(u)
  <2>1. d = [u EXCEPT !.editor = NoEditor, !.chosen = @ \cup {item.id}, !.topicTyped = ""]
    BY <1>4 DEF SavedTopic
  <2>2. u.chosen \cup {item.id} \in SUBSET Ids(T) /\ item.id \notin u.kept
    BY <1>4, IdsOfTold DEF Screens, Ending, Answering
  <2>3. /\ d \in Screens(T) /\ SameLists(u, d) /\ d.work = u.work /\ d.editor = NoEditor
        /\ d.conflict = u.conflict /\ d.topic = u.topic
        /\ d.mode = u.mode /\ d.open = u.open /\ d.picker = u.picker
        /\ d.kept = u.kept /\ d.deleting = u.deleting
        /\ d.chosen = u.chosen \cup {item.id} /\ d.member = u.member /\ d.load = u.load
    <3>1. d \in Screens(T)
      BY <1>0, <2>1, <2>2, EmptyTyped, ZenonT(40) DEF Screens
    <3>2. SameLists(u, d)
      BY <2>1 DEF Screens, SameLists
    <3>3. QED BY <2>1, <3>1, <3>2 DEF Screens
  <2>4. Apart(d)
    BY <1>1, <1>3, <1>4, <2>3 DEF Ending, Answering, Apart, Choosing
  <2>5. MemberOps(u) \subseteq MemberOps(d)
    BY <2>2, <2>3 DEF MemberOps
  <2>6. QED BY <1>2, <1>3, <2>3, <2>4, <2>5, PartsKept
<1>5. CASE ~Choosing(u)
  <2>1. d = [u EXCEPT !.editor = NoEditor, !.topic = item, !.topicTyped = ""]
    BY <1>5 DEF SavedTopic
  <2>2. /\ d \in Screens(T) /\ SameLists(u, d) /\ d.work = u.work /\ d.editor = NoEditor
        /\ d.conflict = u.conflict /\ d.topic = item
        /\ d.mode = u.mode /\ d.open = u.open /\ d.picker = u.picker
        /\ d.kept = u.kept /\ d.deleting = u.deleting
        /\ d.chosen = u.chosen /\ d.member = u.member /\ d.load = u.load
    <3>1. d \in Screens(T)
      BY <1>0, <2>1, EmptyTyped, ZenonT(40) DEF Screens
    <3>2. SameLists(u, d)
      BY <2>1 DEF Screens, SameLists
    <3>3. QED BY <2>1, <3>1, <3>2 DEF Screens
  <2>3. Apart(d)
    BY <1>1, <1>3, <1>5, <2>2 DEF Ending, Answering, Apart, Choosing
  <2>4. MemberOps(u) = MemberOps(d)
    BY <2>2 DEF MemberOps
  <2>5. QED BY <1>2, <1>3, <2>2, <2>3, <2>4, PartsKept
<1>6. QED BY <1>4, <1>5

LEMMA LatestEnds ==
    ASSUME NEW T, Knows(T), NEW u \in Screens(T), NEW op, NEW done, NEW item \in T,
           Ending(u, op, done, {}, item), u.work.kind = "latest",
           NEW d, d = [u EXCEPT !.editor.base = item]
    PROVE  /\ d \in Screens(T) /\ SameLists(u, d) /\ Apart(d) /\ d.work = u.work
           /\ Unsaved(u) \ Unsaved(d) \subseteq done
<1> DEFINE e == [u.editor EXCEPT !.base = item]
<1>1. /\ u.editor.open /\ ~u.picker /\ ~u.conflict /\ ~Choosing(u)
      /\ u.editor.base # NoItem /\ item.id = u.editor.base.id
  BY DEF Ending, Answering, Doing, Apart, AtWork
<1>2. u.editor \in Editors(T)
  BY DEF Screens
<1>3. /\ e \in Editors(T) /\ e.open = u.editor.open /\ e.base = item
      /\ e.name = u.editor.name /\ e.name0 = u.editor.name0
      /\ e.text = u.editor.text /\ e.text0 = u.editor.text0
  BY <1>2 DEF Editors
<1>4. d = [u EXCEPT !.editor = e]
  OBVIOUS
<1> HIDE DEF e
<1>5. /\ d \in Screens(T) /\ SameLists(u, d) /\ d.work = u.work /\ d.editor = e
      /\ d.conflict = u.conflict /\ d.topic = u.topic
      /\ d.mode = u.mode /\ d.open = u.open /\ d.picker = u.picker
      /\ d.kept = u.kept /\ d.deleting = u.deleting
      /\ d.chosen = u.chosen /\ d.member = u.member /\ d.load = u.load
  BY <1>3, <1>4 DEF Screens, SameLists
<1>6. item # NoItem
  <2>1. u.editor.base \in T
    BY <1>2 DEF Editors
  <2>2. u.editor.base.id # 0
    BY <1>1, <2>1 DEF Knows
  <2>3. NoItem.id = 0
    BY DEF NoItem
  <2>4. QED BY <1>1, <2>2, <2>3
<1>7. Apart(d)
  BY <1>1, <1>3, <1>5 DEF Ending, Answering, Apart, Choosing
<1>8. Piece(SaveOp(u.editor)) = Piece(SaveOp(e))
  BY <1>1, <1>3, <1>6 DEF Piece, SaveOp, Op
<1>9. \A x \in Edit(u) : Piece(x) \in {Piece(y) : y \in Edit(d)}
  BY <1>3, <1>5, <1>8 DEF Edit, EditorDirty
<1>10. MemberOps(u) = MemberOps(d) /\ Picks(u) = {}
  BY <1>1, <1>5 DEF MemberOps, Picks
<1>11. d.open = u.open
  BY <1>5
<1>12. Unsaved(u) \ Unsaved(d) \subseteq done
  BY <1>9, <1>10, <1>11, PartsKept
<1>13. QED BY <1>5, <1>7, <1>12

LEMMA DeleteEnds ==
    ASSUME NEW T, Knows(T), NEW u \in Screens(T), NEW op, NEW done, NEW item \in T,
           Ending(u, op, done, {}, item), u.work.kind = "delete"
    PROVE  LET d == [u EXCEPT !.topic = NoItem, !.deleting = FALSE]
           IN  /\ d \in Screens(T) /\ SameLists(u, d) /\ Apart(d) /\ d.work = u.work
               /\ Unsaved(u) \ Unsaved(d) \subseteq done
<1> DEFINE d == [u EXCEPT !.topic = NoItem, !.deleting = FALSE]
<1>1. ~u.picker /\ ~u.conflict /\ ~Choosing(u)
  BY DEF Ending, Answering, Doing, Apart, AtWork
<1>2. /\ d \in Screens(T) /\ SameLists(u, d) /\ d.work = u.work /\ d.editor = u.editor
      /\ d.conflict = u.conflict
      /\ d.mode = u.mode /\ d.open = u.open /\ d.picker = u.picker
      /\ d.kept = u.kept
      /\ d.chosen = u.chosen /\ d.member = u.member /\ d.load = u.load
  BY NothingKnown DEF Screens, SameLists
<1> HIDE DEF d
<1>3. Apart(d)
  BY <1>1, <1>2 DEF Ending, Answering, Apart, Choosing
<1>4. MemberOps(u) = MemberOps(d) /\ Picks(u) = {} /\ Edit(u) = Edit(d)
  BY <1>1, <1>2 DEF MemberOps, Picks, Edit, EditorDirty
<1>5. \A x \in Edit(u) : Piece(x) \in {Piece(y) : y \in Edit(d)}
  BY <1>4
<1>6. d.open = u.open
  BY <1>2
<1>7. /\ \A x \in Picks(u) : x \in Picks(d) \/ Piece(x) \in done
      /\ \A x \in MemberOps(u) : x \in MemberOps(d) \/ Piece(x) \in done
      /\ \A x \in Edit(u) : Piece(x) \in {Piece(y) : y \in Edit(d)} \cup done
  BY <1>4, <1>5
<1>9. Unsaved(u) \ Unsaved(d) \subseteq done
  BY <1>6, <1>7, PartsKept
<1>8. QED BY <1>2, <1>3, <1>9 DEF d

LEMMA UnlinkEnds ==
    ASSUME NEW T, Knows(T), NEW u \in Screens(T), NEW op, NEW done, NEW item \in T,
           Ending(u, op, done, {}, item), u.work.kind = "unlink",
           NEW p \in Pages(ArticleItems, ArticleKinds)
    PROVE  LET d == [u EXCEPT !.topic = item, !.articles = p]
           IN  /\ d \in Screens(T) /\ d.topics = u.topics /\ d.articles = p
               /\ Apart(d) /\ d.work = u.work
               /\ Unsaved(u) \ Unsaved(d) \subseteq done
<1> DEFINE d == [u EXCEPT !.topic = item, !.articles = p]
<1>1. ~u.picker /\ ~u.conflict /\ ~Choosing(u)
  BY DEF Ending, Answering, Doing, Apart, AtWork
<1>2. /\ d \in Screens(T) /\ d.topics = u.topics /\ d.articles = p
      /\ d.work = u.work /\ d.editor = u.editor
      /\ d.conflict = u.conflict
      /\ d.mode = u.mode /\ d.open = u.open /\ d.picker = u.picker
      /\ d.kept = u.kept
      /\ d.chosen = u.chosen /\ d.member = u.member /\ d.load = u.load
  BY DEF Screens
<1> HIDE DEF d
<1>3. Apart(d)
  BY <1>1, <1>2 DEF Ending, Answering, Apart, Choosing
<1>4. MemberOps(u) = MemberOps(d) /\ Picks(u) = {} /\ Edit(u) = Edit(d)
  BY <1>1, <1>2 DEF MemberOps, Picks, Edit, EditorDirty
<1>5. \A x \in Edit(u) : Piece(x) \in {Piece(y) : y \in Edit(d)}
  BY <1>4
<1>6. d.open = u.open
  BY <1>2
<1>7. /\ \A x \in Picks(u) : x \in Picks(d) \/ Piece(x) \in done
      /\ \A x \in MemberOps(u) : x \in MemberOps(d) \/ Piece(x) \in done
      /\ \A x \in Edit(u) : Piece(x) \in {Piece(y) : y \in Edit(d)} \cup done
  BY <1>4, <1>5
<1>9. Unsaved(u) \ Unsaved(d) \subseteq done
  BY <1>6, <1>7, PartsKept
<1>8. QED BY <1>2, <1>3, <1>9 DEF d

(* A work that failed leaves everything as it is.                          *)
LEMMA RefusalEnds ==
    ASSUME NEW T, Knows(T), NEW u \in Screens(T), NEW op, NEW done, NEW item, NEW failed,
           Ending(u, op, done, failed, item), NEW how, NEW d, d = Refused(u, how)
    PROVE  /\ d \in Screens(T) /\ SameLists(u, d) /\ Apart(d) /\ d.work = u.work
           /\ Unsaved(u) \ Unsaved(d) \subseteq done
<1> DEFINE c == how = "conflict" /\ u.editor.open /\ u.editor.base # NoItem
<1>1. c \in BOOLEAN /\ (c => u.editor.open /\ u.editor.base # NoItem)
  OBVIOUS
<1>2. d = [u EXCEPT !.conflict = c]
  BY DEF Refused
<1> HIDE DEF c
<1>3. /\ d \in Screens(T) /\ SameLists(u, d) /\ d.work = u.work /\ d.editor = u.editor
      /\ d.conflict = c /\ d.topic = u.topic /\ d.selected = u.selected
      /\ d.mode = u.mode /\ d.open = u.open /\ d.picker = u.picker
      /\ d.kept = u.kept /\ d.deleting = u.deleting
      /\ d.chosen = u.chosen /\ d.member = u.member /\ d.load = u.load
  BY <1>1, <1>2 DEF Screens, SameLists
<1>4. Apart(d)
  BY <1>1, <1>3 DEF Ending, Answering, Apart, Choosing
<1>5. MemberOps(u) = MemberOps(d) /\ Picks(u) = Picks(d) /\ Edit(u) = Edit(d)
  BY <1>3 DEF MemberOps, Picks, AddOps, Edit, EditorDirty
<1>6. QED BY <1>3, <1>4, <1>5, PartsKept

-----------------------------------------------------------------------------
(* A work ends, or goes on with its next call.                             *)

LEMMA ConcludedFits ==
    ASSUME NEW T, Knows(T), NEW u \in Screens(T), NEW op, NEW done,
           NEW failed \in SUBSET Ops, NEW item \in T, NEW how,
           Ending(u, op, done, failed, item),
           NEW n \in Nat, NEW m \in Nat, NEW live, NEW rows, ListsOf(u, n, live, m, rows)
    PROVE  LET d == Concluded(u, failed, how, item)
           IN  /\ d \in Screens(T) /\ ListsOf(d, n, live, m, rows)
               /\ Apart(d) /\ d.work = u.work
               /\ Unsaved(u) \ Unsaved(d) \subseteq done
<1> DEFINE d == Concluded(u, failed, how, item)
           kind == u.work.kind
<1>1. kind \in WorkKinds \ {"none"}
  BY DEF Ending, Answering, Busy, Screens, Works
<1>2. \A v : SameLists(u, v) => ListsOf(v, n, live, m, rows)
  BY DEF SameLists, ListsOf
<1>3. CASE kind = "link"
  <2>1. d = AddedArticles(u, failed, item)
    BY <1>3 DEF Concluded
  <2> HIDE DEF d
  <2>2. /\ d \in Screens(T) /\ SameLists(u, d) /\ Apart(d) /\ d.work = u.work
        /\ Unsaved(u) \ Unsaved(d) \subseteq done
    <3>1. u.work.kind = "link"
      BY <1>3
    <3> HIDE DEF kind
    <3> DEFINE e == AddedArticles(u, failed, item)
    <3>2. /\ e \in Screens(T) /\ SameLists(u, e) /\ Apart(e) /\ e.work = u.work
          /\ Unsaved(u) \ Unsaved(e) \subseteq done
      BY <3>1, LinkEnds
    <3> HIDE DEF e
    <3>3. d = e
      BY <2>1 DEF e
    <3>4. QED BY <3>2, <3>3
  <2>3. QED BY <1>2, <2>2 DEF d
<1>4. CASE kind = "members"
  <2>1. d = SavedMembers(u, failed)
    BY <1>4 DEF Concluded
  <2> HIDE DEF d
  <2>2. QED BY <1>2, <1>4, <2>1, MembersEnd DEF d
<1>5. CASE kind \notin {"link", "members"} /\ failed # {}
  <2>1. d = Refused(u, how)
    BY <1>5 DEF Concluded
  <2> HIDE DEF d
  <2>2. QED BY <1>2, <1>5, <2>1, RefusalEnds DEF d
<1>6. CASE kind = "save" /\ failed = {}
  <2>1. d = SavedTopic(u, item)
    BY <1>6 DEF Concluded
  <2> HIDE DEF d
  <2>2. QED BY <1>2, <1>6, <2>1, SaveEnds DEF d
<1>7. CASE kind = "latest" /\ failed = {}
  <2>1. d = [u EXCEPT !.editor.base = item]
    BY <1>7 DEF Concluded
  <2> HIDE DEF d
  <2>2. QED BY <1>2, <1>7, <2>1, LatestEnds DEF d
<1>8. CASE kind = "delete" /\ failed = {}
  <2>1. d = [u EXCEPT !.topic = NoItem, !.deleting = FALSE]
    BY <1>8 DEF Concluded
  <2> HIDE DEF d
  <2> DEFINE e == [u EXCEPT !.topic = NoItem, !.deleting = FALSE]
  <2> HIDE DEF e
  <2>2. /\ e \in Screens(T) /\ SameLists(u, e) /\ Apart(e) /\ e.work = u.work
        /\ Unsaved(u) \ Unsaved(e) \subseteq done
    BY <1>8, DeleteEnds DEF e
  <2>3. d = e
    BY <2>1 DEF e
  <2>4. QED BY <1>2, <2>2, <2>3 DEF d
<1>9. CASE kind = "unlink" /\ failed = {}
  <2> DEFINE p == Reload(u.articles)
  <2>1. d = [u EXCEPT !.topic = item, !.articles = p]
    BY <1>9 DEF Concluded
  <2>2. /\ p \in Pages(ArticleItems, ArticleKinds) /\ ListSound(p, "articles", m, rows)
    <3>1. u.articles \in Pages(ArticleItems, ArticleKinds)
      BY DEF Screens
    <3>2. QED BY <3>1, ReloadSound DEF ListsOf
  <2> HIDE DEF p, d
  <2> DEFINE e == [u EXCEPT !.topic = item, !.articles = p]
  <2> HIDE DEF e
  <2>6. /\ e \in Screens(T) /\ e.topics = u.topics /\ e.articles = p
        /\ Apart(e) /\ e.work = u.work
        /\ Unsaved(u) \ Unsaved(e) \subseteq done
    BY <1>9, <2>2, UnlinkEnds DEF e
  <2>3. /\ d \in Screens(T) /\ d.topics = u.topics /\ d.articles = p
        /\ Apart(d) /\ d.work = u.work
        /\ Unsaved(u) \ Unsaved(d) \subseteq done
    BY <2>1, <2>6 DEF e
  <2>4. ListsOf(d, n, live, m, rows)
    BY <2>2, <2>3 DEF ListsOf
  <2>5. QED BY <2>3, <2>4 DEF d
<1>10. QED BY <1>1, <1>3, <1>4, <1>5, <1>6, <1>7, <1>8, <1>9 DEF WorkKinds

(* The work ends: nobody calls any more, and nothing is lost.              *)
LEMMA WorkEnds ==
    ASSUME NEW T, Knows(T), NEW u \in Screens(T), NEW op, NEW done,
           NEW failed \in SUBSET Ops, NEW item \in T, NEW how,
           Ending(u, op, done, failed, item),
           NEW n \in Nat, NEW m \in Nat, NEW live, NEW rows, ListsOf(u, n, live, m, rows)
    PROVE  LET d == Rendered(Done(Concluded(u, failed, how, item), failed))
           IN  /\ d \in Screens(T) /\ ListsOf(d, n, live, m, rows)
               /\ WorkFits(d, Idle, done)
               /\ Unsaved(u) \ Unsaved(d) \subseteq done
<1> DEFINE v == Concluded(u, failed, how, item)
<1>1. /\ v \in Screens(T) /\ ListsOf(v, n, live, m, rows)
      /\ Apart(v) /\ v.work = u.work
      /\ Unsaved(u) \ Unsaved(v) \subseteq done
  BY ConcludedFits
<1> HIDE DEF v
<1> DEFINE p == IF \/ v.work.kind \in {"link", "members"}
                   \/ failed = {} /\ v.work.kind # "latest"
                THEN Reload(v.topics) ELSE v.topics
           w == Done(v, failed)
<1>2. p \in Pages(T, {"topics"}) /\ ListSound(p, "topics", n, live)
  <2>1. v.topics \in Pages(T, {"topics"}) /\ ListSound(v.topics, "topics", n, live)
    BY <1>1 DEF Screens, ListsOf
  <2>2. QED BY <2>1, ReloadSound
<1>3. w = [v EXCEPT !.work = NoWork, !.topics = p]
  BY DEF Done
<1> HIDE DEF p, w
<1>4. /\ w \in Screens(T) /\ w.topics = p /\ w.articles = v.articles /\ w.work = NoWork
      /\ w.editor = v.editor
      /\ w.conflict = v.conflict /\ w.topic = v.topic /\ w.selected = v.selected
      /\ w.mode = v.mode /\ w.open = v.open /\ w.picker = v.picker
      /\ w.kept = v.kept /\ w.deleting = v.deleting
      /\ w.chosen = v.chosen /\ w.member = v.member /\ w.load = v.load
  <2>1. NoWork \in Works(T)
    BY NothingKnown
  <2>2. w \in Screens(T)
    BY <1>1, <1>2, <1>3, <2>1 DEF Screens
  <2>3. QED BY <1>1, <1>3, <2>2 DEF Screens
<1>5. Apart(w)
  BY <1>1, <1>4 DEF Apart, Choosing
<1>6. NoWork.kind = "none" /\ Idle.at = "idle"
  BY DEF NoWork, Idle
<1>7. WorkFits(w, Idle, done)
  BY <1>4, <1>5, <1>6 DEF WorkFits, Busy, AtWork, Doing
<1>8. Unsaved(u) \ Unsaved(w) \subseteq done
  <2>1. MemberOps(v) = MemberOps(w) /\ Picks(v) = Picks(w) /\ Edit(v) = Edit(w)
    BY <1>4 DEF MemberOps, Picks, AddOps, Edit, EditorDirty
  <2>2. Unsaved(v) = Unsaved(w)
    BY <1>4, <2>1, UnsavedParts
  <2>3. QED BY <1>1, <2>2
<1>9. ListsOf(w, n, live, m, rows)
  BY <1>1, <1>2, <1>4 DEF ListsOf
<1>10. /\ Rendered(w) \in Screens(T) /\ Alike(w, Rendered(w))
       /\ ListsOf(Rendered(w), n, live, m, rows)
  BY <1>4, <1>9, RenderedFits
<1>11. Unsaved(Rendered(w)) = Unsaved(w) /\ WorkFits(Rendered(w), Idle, done)
  BY <1>4, <1>7, <1>10, AlikeFits
<1>12. QED BY <1>8, <1>10, <1>11 DEF w, v

(* The work goes on with its next call.                                    *)
Onward(u, next, failed, item) ==
    [u EXCEPT !.work.todo = @ \ {next}, !.work.failed = failed, !.work.item = item]

LEMMA WorkGoesOn ==
    ASSUME NEW T, Knows(T), NEW u \in Screens(T), NEW op, NEW done,
           NEW failed \in SUBSET Ops, NEW item \in T,
           Answering(u, op, done, failed, item), NEW next \in u.work.todo
    PROVE  LET d == Onward(u, next, failed, item)
           IN  /\ d \in Screens(T) /\ SameLists(u, d)
               /\ WorkFits(d, Sent(next), done)
               /\ Unsaved(d) = Unsaved(u)
<1> DEFINE w == [u.work EXCEPT !.todo = @ \ {next}, !.failed = failed, !.item = item]
           d == [u EXCEPT !.work = w]
<1>0. d = Onward(u, next, failed, item)
  BY DEF Screens, Works, Onward
<1>1. u.work \in Works(T)
  BY DEF Screens
<1>2. /\ w \in Works(T) /\ w.kind = u.work.kind /\ w.todo = u.work.todo \ {next}
      /\ w.failed = failed /\ w.item = item
  BY <1>1 DEF Works
<1> HIDE DEF w
<1>3. /\ d \in Screens(T) /\ SameLists(u, d) /\ d.work = w /\ d.editor = u.editor
      /\ d.conflict = u.conflict /\ d.topic = u.topic /\ d.selected = u.selected
      /\ d.mode = u.mode /\ d.open = u.open /\ d.picker = u.picker
      /\ d.kept = u.kept /\ d.deleting = u.deleting /\ d.active = u.active
      /\ d.leaving = u.leaving
      /\ d.chosen = u.chosen /\ d.member = u.member /\ d.load = u.load
  BY <1>2 DEF Screens, SameLists
<1> HIDE DEF d
<1>4. MemberOps(u) = MemberOps(d) /\ Picks(u) = Picks(d) /\ Edit(u) = Edit(d)
      /\ AddOps(u) = AddOps(d)
  BY <1>3 DEF MemberOps, Picks, AddOps, Edit, EditorDirty
<1>5. Unsaved(d) = Unsaved(u)
  BY <1>3, <1>4, UnsavedParts
<1>6. Apart(d) /\ AtWork(d) /\ Busy(d)
  BY <1>2, <1>3 DEF Answering, Apart, AtWork, Busy, Choosing
<1>7. u.work.kind \in {"link", "members"}
  BY <1>1 DEF Answering, Doing, Works, WorkKinds, Busy
<1>8. \A x : Handled(u, x, op, done) => Handled(d, x, next, done)
  BY <1>2, <1>3 DEF Answering, Handled
<1>9. Doing(d, next, done)
  <2>1. CASE u.work.kind = "link"
    BY <1>2, <1>3, <1>4, <1>8, <2>1 DEF Doing, Answering
  <2>2. CASE u.work.kind = "members"
    BY <1>2, <1>3, <1>4, <1>8, <2>2 DEF Doing, Answering, Choosing
  <2>3. QED BY <1>7, <2>1, <2>2
<1>10. Sent(next).at = "sent" /\ Sent(next).op = next
  BY DEF Sent, Idle
<1>11. WorkFits(d, Sent(next), done)
  BY <1>6, <1>9, <1>10 DEF WorkFits
<1>12. QED BY <1>0, <1>3, <1>5, <1>11

-----------------------------------------------------------------------------
(* The invariant of the screen over its store.                             *)
Fit(u) == u \in Screens(Told) /\ ListsOf(u, issued, Live, arrived, articles)

SInv ==
    /\ IInv /\ AnswersSound
    /\ Fit(ui) /\ left \in Budgets
    /\ WorkFits(ui, calls["app"], granted)

(* A step of the screen or the store, by the tables before it.             *)
Steps ==
    /\ [StoreNext]_store
    /\ Fit(ui') /\ left' \in Budgets
    /\ WorkFits(ui', calls'["app"], granted')

Keeps == Unsaved(ui) \ Unsaved(ui') \subseteq granted'

LEMMA Numbers ==
    ASSUME IInv
    PROVE  /\ issued \in Nat /\ arrived \in Nat /\ Live \subseteq Nat /\ articles \subseteq Nat
           /\ Knows(Told) /\ "app" \in Sessions /\ "late" \in Sessions
<1>1. /\ issued \in Nat /\ arrived \in Nat /\ Live \subseteq 1 .. issued
      /\ articles \subseteq 1 .. arrived
  BY StoreAssumption DEF IInv, TablesSound
<1>2. Live \subseteq Nat /\ articles \subseteq Nat
  BY <1>1
<1>3. Knows(Told)
  BY ToldKnows DEF IInv
<1>4. "app" \in Sessions /\ "late" \in Sessions
  BY ScreenAssumption
<1>5. QED BY <1>1, <1>2, <1>3, <1>4

LEMMA SeqGrows ==
    ASSUME NEW S, NEW R, S \subseteq R PROVE Seq(S) \subseteq Seq(R)
  OBVIOUS

LEMMA PagesGrow ==
    ASSUME NEW T, NEW R, T \subseteq R, NEW kinds
    PROVE  Pages(T, kinds) \subseteq Pages(R, kinds)
<1>1. Seq(T) \subseteq Seq(R)
  BY SeqGrows
<1>2. PageRequests(T, kinds) \subseteq PageRequests(R, kinds)
  BY <1>1 DEF PageRequests
<1>3. QED BY <1>1, <1>2 DEF Pages

LEMMA ScreensGrow ==
    ASSUME NEW T, NEW R, T \subseteq R
    PROVE  Screens(T) \subseteq Screens(R)
<1>1. Ids(T) \subseteq Ids(R) /\ OpsOn(T) \subseteq OpsOn(R)
  BY DEF Ids, OpsOn
<1>2. Seq(Ids(T)) \subseteq Seq(Ids(R))
  BY <1>1, SeqGrows
<1>3. Works(T) \subseteq Works(R)
  BY <1>1 DEF Works
<1>4. Editors(T) \subseteq Editors(R)
  BY DEF Editors
<1> HIDE DEF Ids
<1>5. MemberLoads(T) \subseteq MemberLoads(R)
  BY <1>1, <1>2 DEF MemberLoads
<1>6. Refreshes(T) \subseteq Refreshes(R)
  BY DEF Refreshes
<1>7. Pages(T, {"topics"}) \subseteq Pages(R, {"topics"})
  BY PagesGrow
<1>8. ASSUME NEW u \in Screens(T) PROVE u \in Screens(R)
  <2>1. /\ u.topic \in R /\ u.editor \in Editors(R) /\ u.work \in Works(R)
        /\ u.kept \in SUBSET Ids(R) /\ u.chosen \in SUBSET Ids(R)
        /\ u.load \in MemberLoads(R) /\ u.refreshes \in SUBSET Refreshes(R)
        /\ u.topics \in Pages(R, {"topics"})
    BY <1>1, <1>3, <1>4, <1>5, <1>6, <1>7 DEF Screens
  <2>2. QED BY <2>1 DEF Screens
<1>9. QED BY <1>8

(* Articles are saved with new ids.                                        *)
LEMMA ArticlesFollow ==
    ASSUME IInv, [StoreNext]_store
    PROVE  arrived <= arrived' /\ \A a \in articles' : a \in articles \/ a > arrived
<1>1. arrived \in Nat
  BY Numbers
<1>2. CASE arrived' = arrived /\ articles' \subseteq articles
  BY <1>1, <1>2
<1>3. CASE arrived' = arrived + 1 /\ articles' = articles \cup {arrived + 1}
  BY <1>1, <1>3
<1>4. ASSUME NEW s \in Sessions, Commit(s)
      PROVE  \/ arrived' = arrived /\ articles' \subseteq articles
             \/ arrived' = arrived + 1 /\ articles' = articles \cup {arrived + 1}
  BY <1>4 DEF Commit, CreateTopic, UpdateTopic, DeleteTopic, SetMembership, SaveArticle,
              RemoveArticle, CommitNothing, tables
<1>5. QED BY <1>2, <1>3, <1>4 DEF StoreNext, store, Execute, Send, Lock, GetTopic, RollBack,
                              GiveUp, NewDay, tables

LEMMA StepsSound == ASSUME SInv, Steps PROVE SInv'
<1>1. IInv /\ IInv' /\ Follows /\ AnswersSound'
  BY StepSound, StepTells DEF SInv, Steps
<1>2. Told \subseteq Told'
  BY <1>1, ToldGrows DEF IInv
<1>3. ui' \in Screens(Told')
  BY <1>2, ScreensGrow DEF Steps, Fit
<1>4. /\ issued \in Nat /\ arrived \in Nat /\ issued' \in Nat /\ arrived' \in Nat
      /\ Live' \subseteq Nat /\ articles' \subseteq Nat
  <2>1. /\ issued' \in Nat /\ arrived' \in Nat /\ Live' \subseteq 1 .. issued'
        /\ articles' \subseteq 1 .. arrived'
    BY <1>1, StoreAssumption DEF IInv, TablesSound
  <2>2. Live' \subseteq Nat /\ articles' \subseteq Nat
    BY <2>1
  <2>3. QED BY <1>1, <2>1, <2>2, Numbers
<1>5. ListSound(ui'.topics, "topics", issued', Live')
  <2>1. \A t \in Live' : t \in Live \/ t > issued
    BY <1>1 DEF Follows
  <2>2. ui'.topics \in Pages(Told, {"topics"}) /\ ListSound(ui'.topics, "topics", issued, Live)
    BY DEF Steps, Fit, Screens, ListsOf
  <2>3. QED BY <1>1, <1>4, <2>1, <2>2, ListGrows DEF Follows
<1>6. ListSound(ui'.articles, "articles", arrived', articles')
  <2>1. arrived <= arrived' /\ \A a \in articles' : a \in articles \/ a > arrived
    BY <1>1, ArticlesFollow DEF Steps
  <2>2. /\ ui'.articles \in Pages(ArticleItems, ArticleKinds)
        /\ ListSound(ui'.articles, "articles", arrived, articles)
    BY DEF Steps, Fit, Screens, ListsOf
  <2>3. QED BY <1>4, <2>1, <2>2, ListGrows
<1>7. QED BY <1>1, <1>3, <1>5, <1>6 DEF SInv, Steps, Fit, ListsOf

LEMMA SpendFits ==
    ASSUME left \in Budgets,
           NEW what \in {"work", "edit", "pick", "list", "search", "visit", "other", "fault"},
           Spend(what)
    PROVE  left' \in Budgets
<1>1. CASE what = "work"
  BY <1>1 DEF Spend, Budgets
<1>2. CASE what = "edit"
  BY <1>2 DEF Spend, Budgets
<1>3. CASE what = "pick"
  BY <1>3 DEF Spend, Budgets
<1>4. CASE what = "list"
  BY <1>4 DEF Spend, Budgets
<1>5. CASE what = "search"
  BY <1>5 DEF Spend, Budgets
<1>6. CASE what = "visit"
  BY <1>6 DEF Spend, Budgets
<1>7. CASE what = "other"
  BY <1>7 DEF Spend, Budgets
<1>8. CASE what = "fault"
  BY <1>8 DEF Spend, Budgets
<1>9. QED BY <1>1, <1>2, <1>3, <1>4, <1>5, <1>6, <1>7, <1>8

-----------------------------------------------------------------------------
(* The screen turns to d, and nothing else happens.                        *)
LEMMA TurnsTo ==
    ASSUME SInv, NEW d, Fit(d), WorkFits(d, calls["app"], granted), ui' = d,
           UNCHANGED <<store, granted>>, left' \in Budgets
    PROVE  Steps
<1>1. calls' = calls /\ granted' = granted
  BY DEF store
<1>2. QED BY <1>1 DEF Steps

LEMMA TurnsFit ==
    ASSUME SInv, NEW d, Fit(d), WorkFits(d, calls["app"], granted), Turns(d)
    PROVE  Steps /\ Unsaved(ui') = Unsaved(d)
<1>1. /\ ui' = Rendered(d) /\ UNCHANGED <<store, granted>> /\ left' \in Budgets
  BY DEF Turns, SInv
<1>2. Knows(Told) /\ issued \in Nat /\ arrived \in Nat
  BY Numbers DEF SInv
<1>3. Rendered(d) \in Screens(Told) /\ Alike(d, Rendered(d)) /\ Fit(Rendered(d))
  BY <1>2, RenderedFits DEF Fit
<1>4. Unsaved(Rendered(d)) = Unsaved(d) /\ WorkFits(Rendered(d), calls["app"], granted)
  BY <1>2, <1>3, AlikeFits DEF Fit
<1>5. QED BY <1>1, <1>3, <1>4, TurnsTo

(* d is like the screen.                                                   *)
LEMMA AlikeSteps ==
    ASSUME SInv, NEW d, Fit(d), Alike(ui, d), ui' = d \/ Turns(d),
           UNCHANGED <<store, granted>>, left' \in Budgets
    PROVE  Steps /\ Keeps
<1>1. Knows(Told) /\ ui \in Screens(Told) /\ d \in Screens(Told)
  BY Numbers DEF SInv, Fit
<1>2. Unsaved(d) = Unsaved(ui) /\ WorkFits(d, calls["app"], granted)
  BY <1>1, AlikeFits DEF SInv
<1>3. CASE ui' = d
  BY <1>2, <1>3, TurnsTo DEF Keeps
<1>4. CASE Turns(d)
  BY <1>2, <1>4, TurnsFit DEF Keeps
<1>5. QED BY <1>3, <1>4

(* Another list.                                                           *)
LEMMA TopicsFit ==
    ASSUME NEW u, Fit(u), NEW p \in Pages(Told, {"topics"}),
           ListSound(p, "topics", issued, Live)
    PROVE  LET d == [u EXCEPT !.topics = p] IN Fit(d) /\ Alike(u, d)
<1> DEFINE d == [u EXCEPT !.topics = p]
<1>1. /\ d \in Screens(Told) /\ d.topics = p /\ d.articles = u.articles /\ Alike(u, d)
  BY DEF Fit, Screens, Alike
<1> HIDE DEF d
<1>2. Fit(d)
  BY <1>1 DEF Fit, ListsOf
<1>3. QED BY <1>1, <1>2 DEF d

LEMMA ArticlesFit ==
    ASSUME NEW u, Fit(u), NEW p \in Pages(ArticleItems, ArticleKinds),
           ListSound(p, "articles", arrived, articles)
    PROVE  LET d == [u EXCEPT !.articles = p] IN Fit(d) /\ Alike(u, d)
<1> DEFINE d == [u EXCEPT !.articles = p]
<1>1. /\ d \in Screens(Told) /\ d.topics = u.topics /\ d.articles = p /\ Alike(u, d)
  BY DEF Fit, Screens, Alike
<1> HIDE DEF d
<1>2. Fit(d)
  BY <1>1 DEF Fit, ListsOf
<1>3. QED BY <1>1, <1>2 DEF d

LEMMA ListsFit ==
    ASSUME NEW u, Fit(u)
    PROVE  /\ u.topics \in Pages(Told, {"topics"})
           /\ ListSound(u.topics, "topics", issued, Live)
           /\ u.articles \in Pages(ArticleItems, ArticleKinds)
           /\ ListSound(u.articles, "articles", arrived, articles)
  BY DEF Fit, Screens, ListsOf

LEMMA ServeListFits ==
    ASSUME SInv, NEW list \in {"topics", "articles"}, ServeList(list) PROVE Steps /\ Keeps
<1>1. PICK r \in ui[list].reqs :
         Answers([ui EXCEPT ![list].reqs = (@ \ {r}) \cup {Reply(r)}])
  BY DEF ServeList
<1>2. Fit(ui) /\ TablesSound /\ left \in Budgets
  BY DEF SInv, IInv
<1>3. CASE list = "topics"
  <2> DEFINE p == [ui.topics EXCEPT !.reqs = (@ \ {r}) \cup {Reply(r)}]
             d == [ui EXCEPT !.topics = p]
  <2>1. p \in Pages(Told, {"topics"}) /\ ListSound(p, "topics", issued, Live)
    BY <1>1, <1>2, <1>3, ListsFit, ServeTopicsSound
  <2>2. Answers(d)
    BY <1>1, <1>3 DEF Fit, Screens
  <2> HIDE DEF p
  <2>3. Fit(d) /\ Alike(ui, d)
    BY <1>2, <2>1, TopicsFit
  <2> HIDE DEF d
  <2>4. QED BY <1>2, <2>2, <2>3, AlikeSteps DEF Answers
<1>4. CASE list = "articles"
  <2> DEFINE p == [ui.articles EXCEPT !.reqs = (@ \ {r}) \cup {Reply(r)}]
             d == [ui EXCEPT !.articles = p]
  <2>1. /\ p \in Pages(ArticleItems, ArticleKinds)
        /\ ListSound(p, "articles", arrived, articles)
    BY <1>1, <1>2, <1>4, ListsFit, ServeArticlesSound
  <2>2. Answers(d)
    BY <1>1, <1>4 DEF Fit, Screens
  <2> HIDE DEF p
  <2>3. Fit(d) /\ Alike(ui, d)
    BY <1>2, <2>1, ArticlesFit
  <2> HIDE DEF d
  <2>4. QED BY <1>2, <2>2, <2>3, AlikeSteps DEF Answers
<1>5. QED BY <1>3, <1>4

(* An answer is heard, or lost.                                            *)
LEMMA TakeFits ==
    ASSUME SInv, NEW list \in {"topics", "articles"}, NEW r \in ui[list].reqs,
           ui' = [ui EXCEPT ![list] = Take(@, r)],
           UNCHANGED <<store, granted>>, left' \in Budgets
    PROVE  Steps /\ Keeps
<1>1. Fit(ui) /\ Live \subseteq Nat /\ articles \subseteq Nat /\ issued \in Nat
      /\ arrived \in Nat
  BY Numbers DEF SInv
<1>2. CASE list = "topics"
  <2> DEFINE p == Take(ui.topics, r)
             d == [ui EXCEPT !.topics = p]
  <2>1. p \in Pages(Told, {"topics"}) /\ ListSound(p, "topics", issued, Live)
    BY <1>1, <1>2, ListsFit, TakeSound
  <2>2. ui' = d
    BY <1>2 DEF Fit, Screens
  <2> HIDE DEF p
  <2>3. Fit(d) /\ Alike(ui, d)
    BY <1>1, <2>1, TopicsFit
  <2> HIDE DEF d
  <2>4. QED BY <2>2, <2>3, AlikeSteps
<1>3. CASE list = "articles"
  <2> DEFINE p == Take(ui.articles, r)
             d == [ui EXCEPT !.articles = p]
  <2>1. /\ p \in Pages(ArticleItems, ArticleKinds)
        /\ ListSound(p, "articles", arrived, articles)
    BY <1>1, <1>3, ListsFit, TakeSound
  <2>2. ui' = d
    BY <1>3 DEF Fit, Screens
  <2> HIDE DEF p
  <2>3. Fit(d) /\ Alike(ui, d)
    BY <1>1, <2>1, ArticlesFit
  <2> HIDE DEF d
  <2>4. QED BY <2>2, <2>3, AlikeSteps
<1>4. QED BY <1>2, <1>3

LEMMA HearListFits ==
    ASSUME SInv, NEW list \in {"topics", "articles"}, HearList(list) PROVE Steps /\ Keeps
<1>1. left \in Budgets
  BY DEF SInv
<1>2. QED BY <1>1, TakeFits DEF HearList, Answers

LEMMA LoseListFits ==
    ASSUME SInv, NEW list \in {"topics", "articles"}, LoseList(list) PROVE Steps /\ Keeps
<1>1. left' \in Budgets
  BY SpendFits DEF SInv, LoseList
<1>2. QED BY <1>1, TakeFits DEF LoseList

(* Other refreshes, or the topic read again.                               *)
LEMMA RefreshesFit ==
    ASSUME SInv, NEW refreshes \in SUBSET Refreshes(Told), NEW topic \in Told,
           topic.id = ui.topic.id,
           ui' = [ui EXCEPT !.refreshes = refreshes, !.topic = topic],
           UNCHANGED <<store, granted>>, left' \in Budgets
    PROVE  Steps /\ Keeps
<1> DEFINE d == [ui EXCEPT !.refreshes = refreshes, !.topic = topic]
<1>1. ui \in Screens(Told) /\ Fit(ui)
  BY DEF SInv, Fit
<1>2. d \in Screens(Told) /\ Alike(ui, d) /\ SameLists(ui, d)
  <2>1. d \in Screens(Told)
    BY <1>1 DEF Screens
  <2>2. Alike(ui, d)
    BY <1>1 DEF Screens, Alike
  <2>3. SameLists(ui, d)
    BY <1>1 DEF Screens, SameLists
  <2>4. QED BY <2>1, <2>2, <2>3
<1>3. ui' = d
  OBVIOUS
<1> HIDE DEF d
<1>4. Fit(d)
  BY <1>1, <1>2 DEF Fit, ListsOf, SameLists
<1>5. QED BY <1>2, <1>3, <1>4, AlikeSteps

LEMMA ScreenRefreshes ==
    ASSUME SInv
    PROVE  /\ ui.refreshes \in SUBSET Refreshes(Told) /\ ui.topic \in Told
           /\ left \in Budgets /\ TablesSound
           /\ \A R : [ui EXCEPT !.refreshes = R]
                       = [ui EXCEPT !.refreshes = R, !.topic = ui.topic]
  BY DEF SInv, Fit, Screens, IInv

LEMMA ServeRefreshFits == ASSUME SInv, ServeRefresh PROVE Steps /\ Keeps
<1>1. PICK r \in ui.refreshes :
        /\ r.on = "sent"
        /\ Answers([ui EXCEPT !.refreshes = (@ \ {r}) \cup
                       {IF r.id \in Live
                        THEN [r EXCEPT !.on = "ok", !.item = TopicDto(r.id)]
                        ELSE [r EXCEPT !.on = "missing"]}])
  BY DEF ServeRefresh
<1> DEFINE q == IF r.id \in Live THEN [r EXCEPT !.on = "ok", !.item = TopicDto(r.id)]
                ELSE [r EXCEPT !.on = "missing"]
           R == (ui.refreshes \ {r}) \cup {q}
<1>2. r \in Refreshes(Told)
  BY ScreenRefreshes
<1>3. q \in Refreshes(Told)
  <2>1. CASE r.id \in Live
    <3>1. TopicDto(r.id) \in Told /\ TopicDto(r.id).id = r.id
      BY <2>1, ScreenRefreshes, DtoTold
    <3>2. QED BY <1>2, <2>1, <3>1 DEF Refreshes
  <2>2. CASE r.id \notin Live
    BY <1>2, <2>2 DEF Refreshes
  <2>3. QED BY <2>1, <2>2
<1>4. Answers([ui EXCEPT !.refreshes = R])
  BY <1>1
<1> HIDE DEF q
<1>5. R \in SUBSET Refreshes(Told)
  BY <1>3, ScreenRefreshes
<1> HIDE DEF R
<1>6. QED BY <1>4, <1>5, ScreenRefreshes, RefreshesFit DEF Answers

LEMMA HearRefreshFits == ASSUME SInv, HearRefresh PROVE Steps /\ Keeps
<1>1. PICK r \in ui.refreshes :
        Answers([ui EXCEPT
              !.refreshes = @ \ {r},
              !.topic = IF /\ r.on = "ok" /\ r.fresh
                           /\ @.id = r.id /\ r.item.rev >= @.rev
                        THEN r.item ELSE @])
  BY DEF HearRefresh
<1> DEFINE topic == IF /\ r.on = "ok" /\ r.fresh
                       /\ ui.topic.id = r.id /\ r.item.rev >= ui.topic.rev
                    THEN r.item ELSE ui.topic
           R == ui.refreshes \ {r}
<1>2. r \in Refreshes(Told)
  BY ScreenRefreshes
<1>3. topic \in Told /\ topic.id = ui.topic.id
  BY <1>2, ScreenRefreshes DEF Refreshes
<1>4. R \in SUBSET Refreshes(Told)
  BY ScreenRefreshes
<1>5. ui' = [ui EXCEPT !.refreshes = R, !.topic = topic]
      /\ UNCHANGED <<store, granted>> /\ left' = left
  BY <1>1 DEF Answers, SInv, Fit, Screens
<1> HIDE DEF R, topic
<1>6. QED BY <1>3, <1>4, <1>5, ScreenRefreshes, RefreshesFit

LEMMA LoseRefreshFits == ASSUME SInv, LoseRefresh PROVE Steps /\ Keeps
<1>1. PICK r \in ui.refreshes :
        /\ Spend("fault")
        /\ ui' = [ui EXCEPT !.refreshes = @ \ {r}]
        /\ UNCHANGED <<store, granted>>
  BY DEF LoseRefresh
<1> DEFINE R == ui.refreshes \ {r}
<1>2. R \in SUBSET Refreshes(Told) /\ ui' = [ui EXCEPT !.refreshes = R]
  BY <1>1, ScreenRefreshes
<1>3. left' \in Budgets
  BY <1>1, SpendFits DEF SInv
<1> HIDE DEF R
<1>4. QED BY <1>1, <1>2, <1>3, ScreenRefreshes, RefreshesFit

(* Typing in a search, and what it does 250 ms later.                      *)
LEMMA SearchFits ==
    ASSUME NEW u, Fit(u), NEW a \in Searches, NEW b \in Searches,
           NEW x \in Searches, NEW y \in Searches
    PROVE  LET d == [u EXCEPT !.topicTyped = a, !.topicQuery = b,
                              !.articleTyped = x, !.articleQuery = y]
           IN  Fit(d) /\ Alike(u, d)
<1> DEFINE d == [u EXCEPT !.topicTyped = a, !.topicQuery = b,
                          !.articleTyped = x, !.articleQuery = y]
<1>1. d \in Screens(Told)
  BY DEF Fit, Screens
<1>2. Alike(u, d)
  BY DEF Fit, Screens, Alike
<1>3. SameLists(u, d)
  BY DEF Fit, Screens, SameLists
<1> HIDE DEF d
<1>4. Fit(d)
  BY <1>1, <1>3 DEF Fit, ListsOf, SameLists
<1>5. QED BY <1>2, <1>4 DEF d

LEMMA ScreenSearches ==
    ASSUME SInv, NEW q \in Searches
    PROVE  /\ LET d == [ui EXCEPT !.topicTyped = q] IN Fit(d) /\ Alike(ui, d)
           /\ LET d == [ui EXCEPT !.topicQuery = q] IN Fit(d) /\ Alike(ui, d)
           /\ LET d == [ui EXCEPT !.articleTyped = q] IN Fit(d) /\ Alike(ui, d)
           /\ LET d == [ui EXCEPT !.articleQuery = q] IN Fit(d) /\ Alike(ui, d)
<1> DEFINE d(a, b, x, y) == [ui EXCEPT !.topicTyped = a, !.topicQuery = b,
                                       !.articleTyped = x, !.articleQuery = y]
<1>1. Fit(ui) /\ ui \in Screens(Told)
  BY DEF SInv, Fit
<1>2. /\ ui.topicTyped \in Searches /\ ui.topicQuery \in Searches
      /\ ui.articleTyped \in Searches /\ ui.articleQuery \in Searches
  BY <1>1 DEF Screens
<1>3. \A a, b, x, y \in Searches : Fit(d(a, b, x, y)) /\ Alike(ui, d(a, b, x, y))
  BY <1>1, SearchFits
<1>4. [ui EXCEPT !.topicTyped = q]
        = d(q, ui.topicQuery, ui.articleTyped, ui.articleQuery)
  BY <1>1 DEF Screens
<1>5. [ui EXCEPT !.topicQuery = q]
        = d(ui.topicTyped, q, ui.articleTyped, ui.articleQuery)
  BY <1>1 DEF Screens
<1>6. [ui EXCEPT !.articleTyped = q]
        = d(ui.topicTyped, ui.topicQuery, q, ui.articleQuery)
  BY <1>1 DEF Screens
<1>7. [ui EXCEPT !.articleQuery = q]
        = d(ui.topicTyped, ui.topicQuery, ui.articleTyped, q)
  BY <1>1 DEF Screens
<1> HIDE DEF d
<1>8. QED BY <1>2, <1>3, <1>4, <1>5, <1>6, <1>7

LEMMA TypeSearchFits == ASSUME SInv, TypeSearch PROVE Steps /\ Keeps
<1>1. left' \in Budgets /\ UNCHANGED <<store, granted>> /\ Fit(ui)
  BY SpendFits DEF SInv, TypeSearch
<1>2. PICK q \in Searches : \/ ui' = [ui EXCEPT !.topicTyped = q]
                            \/ ui' = [ui EXCEPT !.articleTyped = q]
  BY DEF TypeSearch
<1>3. Fit(ui') /\ Alike(ui, ui')
  <2>1. CASE ui' = [ui EXCEPT !.topicTyped = q]
    BY <2>1, ScreenSearches
  <2>2. CASE ui' = [ui EXCEPT !.articleTyped = q]
    BY <2>2, ScreenSearches
  <2>3. QED BY <1>2, <2>1, <2>2
<1>4. QED BY <1>1, <1>3, AlikeSteps

LEMMA DebouncedFits == ASSUME SInv, Debounced PROVE Steps /\ Keeps
<1>1. /\ ui.topicTyped \in Searches /\ ui.articleTyped \in Searches
      /\ Fit(ui) /\ left \in Budgets
  BY DEF SInv, Fit, Screens
<1>2. CASE Turns([ui EXCEPT !.topicQuery = ui.topicTyped])
  <2> DEFINE d == [ui EXCEPT !.topicQuery = ui.topicTyped]
  <2>1. Fit(d) /\ Alike(ui, d)
    BY <1>1, ScreenSearches
  <2> HIDE DEF d
  <2>2. Turns(d)
    BY <1>2 DEF d
  <2>3. QED BY <1>1, <2>1, <2>2, AlikeSteps DEF Turns
<1>3. CASE Turns([ui EXCEPT !.articleQuery = ui.articleTyped])
  <2> DEFINE d == [ui EXCEPT !.articleQuery = ui.articleTyped]
  <2>1. Fit(d) /\ Alike(ui, d)
    BY <1>1, ScreenSearches
  <2> HIDE DEF d
  <2>2. Turns(d)
    BY <1>3 DEF d
  <2>3. QED BY <1>1, <2>1, <2>2, AlikeSteps DEF Turns
<1>4. QED BY <1>2, <1>3 DEF Debounced

(* More of a list, or the same again.                                      *)
LEMMA LoadFits ==
    ASSUME SInv, NEW list \in {"topics", "articles"}
    PROVE  LET d == [ui EXCEPT ![list] = Load(@, @.scope, @.cursor)]
           IN  Fit(d) /\ Alike(ui, d)
<1>1. Fit(ui) /\ issued \in Nat /\ arrived \in Nat
  BY Numbers DEF SInv
<1>2. CASE list = "topics"
  <2> DEFINE p == Load(ui.topics, ui.topics.scope, ui.topics.cursor)
  <2>1. ui.topics.scope \in Scopes({"topics"}) /\ ui.topics.cursor \in Nat
    BY <1>1, ListsFit DEF Pages
  <2>2. p \in Pages(Told, {"topics"}) /\ ListSound(p, "topics", issued, Live)
    BY <1>1, <2>1, ListsFit, LoadSound
  <2>3. [ui EXCEPT ![list] = Load(@, @.scope, @.cursor)] = [ui EXCEPT !.topics = p]
    BY <1>1, <1>2 DEF Fit, Screens
  <2> HIDE DEF p
  <2>4. QED BY <1>1, <2>2, <2>3, TopicsFit
<1>3. CASE list = "articles"
  <2> DEFINE p == Load(ui.articles, ui.articles.scope, ui.articles.cursor)
  <2>1. ui.articles.scope \in Scopes(ArticleKinds) /\ ui.articles.cursor \in Nat
    BY <1>1, ListsFit DEF Pages
  <2>2. /\ p \in Pages(ArticleItems, ArticleKinds)
        /\ ListSound(p, "articles", arrived, articles)
    BY <1>1, <2>1, ListsFit, LoadSound
  <2>3. [ui EXCEPT ![list] = Load(@, @.scope, @.cursor)] = [ui EXCEPT !.articles = p]
    BY <1>1, <1>3 DEF Fit, Screens
  <2> HIDE DEF p
  <2>4. QED BY <1>1, <2>2, <2>3, ArticlesFit
<1>4. QED BY <1>2, <1>3

LEMMA AskListFits == ASSUME SInv, AskList PROVE Steps /\ Keeps
<1>1. ASSUME NEW list \in {"topics", "articles"}, NEW shows, PressMore(list, shows)
      PROVE  Steps /\ Keeps
  <2>1. left' \in Budgets
    BY <1>1, SpendFits DEF SInv, PressMore
  <2>2. QED BY <1>1, <2>1, LoadFits, AlikeSteps DEF PressMore
<1>2. ASSUME NEW list \in {"topics", "articles"}, NEW shows, PressRetry(list, shows)
      PROVE  Steps /\ Keeps
  <2>1. left \in Budgets
    BY DEF SInv
  <2>2. QED BY <1>2, <2>1, LoadFits, AlikeSteps DEF PressRetry, Turns
<1>3. QED BY <1>1, <1>2 DEF AskList

-----------------------------------------------------------------------------
(* The store goes on under the screen.                                     *)
LEMMA StoreGoesOn ==
    ASSUME SInv, [StoreNext]_store, ui' = ui, left' \in Budgets,
           WorkFits(ui, calls'["app"], granted')
    PROVE  Steps /\ Keeps
  BY DEF SInv, Steps, Keeps

(* The call of the work is served.                                         *)
LEMMA ServedFits ==
    ASSUME NEW u, NEW call, NEW done, WorkFits(u, call, done), call.at # "idle",
           NEW next, NEW more, next.op = call.op, next.at # "idle", done \subseteq more,
           next.at = "done" /\ next.how = "ok" => Piece(call.op) \in more,
           Choosing(u) /\ u.work.kind = "save" /\ next.at = "done" /\ next.how = "ok"
             => next.item.id \notin u.kept
    PROVE  WorkFits(u, next, more)
<1>1. \A x : Handled(u, x, call.op, done) => Handled(u, x, call.op, more)
  BY DEF Handled
<1>2. Doing(u, next.op, more)
  <2>1. Doing(u, call.op, done)
    BY DEF WorkFits
  <2>2. QED BY <1>1, <2>1 DEF Doing
<1>3. QED BY <1>2 DEF WorkFits

LEMMA MidnightFits == ASSUME SInv, Midnight PROVE Steps /\ Keeps
<1>1. StoreNext /\ left' \in Budgets
  BY SpendFits DEF SInv, Midnight, StoreNext
<1>2. calls' = calls /\ granted' = granted /\ ui' = ui
  BY DEF Midnight, NewDay
<1>3. QED BY <1>1, <1>2, StoreGoesOn DEF SInv

(* What a client can call.                                                 *)
LEMMA OpTyped ==
    ASSUME NEW kind \in Kinds, NEW base \in Items, NEW article \in 0 .. MaxArticle,
           NEW name \in Names, NEW text \in Texts
    PROVE  LET op == Op(kind, base, article, name, text)
           IN  /\ op \in Ops /\ op.kind = kind /\ op.base = base /\ op.article = article
               /\ op.name = name /\ op.text = text
  BY DEF Op, Ops

LEMMA CallTold ==
    ASSUME IInv, NEW kind \in Kinds, NEW base \in Told, NEW article \in 0 .. MaxArticle,
           NEW name \in Names, NEW text \in Texts
    PROVE  LET op == Op(kind, base, article, name, text)
           IN  op \in OpsOn(Told) /\ Sent(op) \in NewCalls
<1> DEFINE op == Op(kind, base, article, name, text)
<1>1. base \in Items /\ Genuine(base)
  BY DEF Told
<1>2. op \in Ops /\ op.base = base
  BY <1>1, OpTyped
<1> HIDE DEF op
<1>3. op \in OpsOn(Told) /\ Sent(op) \in NewCalls
  BY <1>1, <1>2 DEF OpsOn, NewCalls
<1>4. QED BY <1>3 DEF op

LEMMA LinkTold ==
    ASSUME IInv, NEW kind \in {"link", "unlink"}, NEW t \in Ids(Told),
           NEW a \in 0 .. MaxArticle
    PROVE  /\ LinkOp(kind, t, a) \in OpsOn(Told) /\ Sent(LinkOp(kind, t, a)) \in NewCalls
           /\ LinkOp(kind, t, a).kind = kind /\ LinkOp(kind, t, a).base.id = t
           /\ LinkOp(kind, t, a).article = a
<1>1. kind \in Kinds /\ [NoItem EXCEPT !.id = t] \in Told /\ AnyName \in Names
      /\ AnyText \in Texts
  BY Defaults DEF Kinds, Ids
<1>2. LinkOp(kind, t, a) \in OpsOn(Told) /\ Sent(LinkOp(kind, t, a)) \in NewCalls
  BY <1>1, CallTold DEF LinkOp
<1>3. /\ LinkOp(kind, t, a).kind = kind /\ LinkOp(kind, t, a).base.id = t
      /\ LinkOp(kind, t, a).article = a
  BY DEF LinkOp, Op, NoItem
<1>4. QED BY <1>2, <1>3

LEMMA OtherOpsTold == ASSUME SInv, NEW op \in OtherOps PROVE Sent(op) \in NewCalls
<1>1. IInv /\ TablesSound /\ left.names \subseteq Names /\ Knows(Told)
  BY Numbers DEF SInv, IInv, Budgets
<1>2. 0 \in 0 .. MaxArticle /\ AnyName \in Names /\ AnyText \in Texts /\ NoItem \in Told
      /\ {"update", "delete", "create", "remove", "save"} \subseteq Kinds
  BY <1>1, Defaults, StoreAssumption DEF Kinds, Knows
<1>3. articles \subseteq 0 .. MaxArticle
  BY <1>1, StoreAssumption DEF TablesSound
<1>4. \A t \in Live : TopicDto(t) \in Told /\ t \in Ids(Told) /\ topics[t].text \in Texts
  <2>1. SUFFICES ASSUME NEW t \in Live
                 PROVE  TopicDto(t) \in Told /\ t \in Ids(Told) /\ topics[t].text \in Texts
    OBVIOUS
  <2>2. TopicDto(t) \in Told /\ TopicDto(t).id = t
    BY <1>1, DtoTold
  <2>3. t \in Ids(Told)
    BY <1>1, <2>2, IdsOfTold
  <2>4. topics[t].text \in Texts
    BY <1>1 DEF TablesSound, Live, Topics
  <2>5. QED BY <2>2, <2>3, <2>4
<1>5. CASE \E t \in Live, n \in left.names :
             op = Op("update", TopicDto(t), 0, n, topics[t].text)
  BY <1>1, <1>2, <1>4, <1>5, CallTold
<1>6. CASE \E t \in Live : op = Op("delete", TopicDto(t), 0, AnyName, AnyText)
  BY <1>1, <1>2, <1>4, <1>6, CallTold
<1>7. CASE \E n \in left.names : op = Op("create", NoItem, 0, n, AnyText)
  BY <1>1, <1>2, <1>7, CallTold
<1>8. CASE \E k \in {"link", "unlink"}, t \in Live, a \in articles : op = LinkOp(k, t, a)
  BY <1>1, <1>3, <1>4, <1>8, LinkTold
<1>9. CASE \E a \in articles : op = Op("remove", NoItem, a, AnyName, AnyText)
  BY <1>1, <1>2, <1>3, <1>9, CallTold
<1>10. CASE op = Op("save", NoItem, 0, AnyName, AnyText)
  BY <1>1, <1>2, <1>10, CallTold
<1>11. QED BY <1>5, <1>6, <1>7, <1>8, <1>9, <1>10 DEF OtherOps

LEMMA OtherDeviceFits == ASSUME SInv, OtherDevice PROVE Steps /\ Keeps
<1>1. PICK op \in OtherOps : calls' = [calls EXCEPT !["other"] = Sent(op)]
  BY DEF OtherDevice
<1>2. "other" \in Sessions /\ "app" \in Sessions /\ calls \in [Sessions -> Calls]
  BY ScreenAssumption DEF SInv, IInv, CallsSound
<1>3. Send("other")
  BY <1>1, OtherOpsTold DEF OtherDevice, Send
<1>4. StoreNext
  BY <1>2, <1>3 DEF StoreNext
<1>5. calls'["app"] = calls["app"] /\ granted' = granted /\ ui' = ui
  BY <1>1, <1>2 DEF OtherDevice
<1>6. left' \in Budgets
  BY SpendFits DEF SInv, OtherDevice
<1>7. QED BY <1>4, <1>5, <1>6, StoreGoesOn DEF SInv

(* Who answers whom.                                                       *)
LEMMA AnswerGoes ==
    ASSUME IInv, NEW s \in Sessions, NEW how, NEW item, Answer(s, how, item)
    PROVE  /\ calls'[s].op = calls[s].op /\ calls'[s].at = "done"
           /\ calls'[s].how = how /\ calls'[s].item = item
           /\ \A r \in Sessions \ {s} : calls'[r] = calls[r]
<1>1. calls[s] \in Calls /\ calls \in [Sessions -> Calls]
  BY DEF IInv, CallsSound
<1>2. QED BY <1>1 DEF Answer, Calls

LEMMA ServerFailsFits == ASSUME SInv, NEW s \in Sessions, ServerFails(s) PROVE Steps /\ Keeps
<1>1. StoreNext /\ left' \in Budgets /\ granted' = granted /\ ui' = ui
  BY SpendFits DEF SInv, ServerFails, StoreNext
<1>2. Answer(s, "error", NoItem) /\ calls[s].at = "locked" /\ IInv /\ "app" \in Sessions
  BY Numbers DEF SInv, ServerFails, RollBack
<1>3. WorkFits(ui, calls'["app"], granted)
  <2>1. CASE s = "app"
    <3>1. calls'["app"].op = calls["app"].op /\ calls'["app"].at = "done"
          /\ calls'["app"].how = "error"
      BY <1>2, <2>1, AnswerGoes
    <3>2. WorkFits(ui, calls["app"], granted) /\ calls["app"].at # "idle"
      BY <1>2, <2>1 DEF SInv
    <3>3. QED BY <3>1, <3>2, ServedFits
  <2>2. CASE s # "app"
    BY <1>2, <2>2, AnswerGoes DEF SInv
  <2>3. QED BY <2>1, <2>2
<1>4. QED BY <1>1, <1>3, StoreGoesOn

(* A topic that was just created is none of those known.                   *)
LEMMA NewIsNew ==
    ASSUME SInv, Choosing(ui), ui.work.kind = "save", NEW s, s = "app", Execute(s),
           calls'[s].at = "done", calls'[s].how = "ok"
    PROVE  calls'[s].item.id \notin ui.kept
<1>1. /\ calls[s].op = SaveOp(ui.editor) /\ ui.editor.base = NoItem
  BY DEF SInv, WorkFits, Doing, Apart
<1>2. calls[s].op.kind = "create"
  BY <1>1 DEF SaveOp, Op
<1>3. IInv /\ AnswersSound /\ s \in Sessions /\ calls[s] \in Calls /\ calls \in [Sessions -> Calls]
  BY Numbers DEF SInv, IInv, CallsSound
<1>4. ~Lock(s)
  <2>1. Lock(s) => calls'[s].at = "locked"
    BY <1>3 DEF Lock, Calls
  <2>2. QED BY <2>1
<1>5. ~GetTopic(s)
  BY <1>2 DEF GetTopic
<1>6. ~CommitNothing(s)
  <2>1. SUFFICES ASSUME CommitNothing(s) PROVE FALSE
    OBVIOUS
  <2>2. calls[s].at = "locked" /\ ~calls[s].writes /\ calls[s].how = "ok"
    BY <1>3, <2>1, AnswerGoes DEF CommitNothing
  <2>3. QED BY <1>2, <1>3, <2>2 DEF AnswersSound, Found
<1>7. CreateTopic(s)
  BY <1>2, <1>4, <1>5, <1>6 DEF Execute, Commit, UpdateTopic, DeleteTopic, SetMembership,
                                SaveArticle, RemoveArticle, Writing
<1>8. StoreNext
  BY <1>3 DEF StoreNext, Execute
<1>9. calls'[s].item.id = issued + 1
  BY <1>3, <1>7, <1>8, StepSound, CreateTells
<1>10. ASSUME NEW x \in ui.kept PROVE x \in Nat /\ x <= issued
  <2>1. x \in Ids(Told)
    BY DEF SInv, Fit, Screens
  <2>2. x \in 0 .. MaxTopic /\ [NoItem EXCEPT !.id = x] \in Told
    BY <2>1 DEF Ids
  <2>3. [NoItem EXCEPT !.id = x].id = x
    BY DEF NoItem
  <2>4. Genuine([NoItem EXCEPT !.id = x])
    BY <2>2 DEF Told
  <2>5. x <= issued
    BY <2>3, <2>4 DEF Genuine
  <2>6. QED BY <2>2, <2>5
<1>11. issued \in Nat
  BY <1>3, Numbers
<1>12. QED BY <1>9, <1>10, <1>11

LEMMA ServeFits == ASSUME SInv, NEW s \in Sessions, Serve(s) PROVE Steps /\ Keeps
<1>1. StoreNext /\ left' \in Budgets /\ ui' = ui /\ Execute(s)
  BY DEF SInv, Serve, StoreNext
<1>2. IInv /\ "app" \in Sessions /\ calls \in [Sessions -> Calls] /\ calls[s] \in Calls
  BY Numbers DEF SInv, IInv, CallsSound
<1>3. /\ calls'[s].op = calls[s].op /\ calls'[s].at \in {"locked", "done"}
      /\ calls[s].at # "idle"
      /\ \A r \in Sessions \ {s} : calls'[r] = calls[r]
  <2>1. CASE Lock(s)
    BY <1>2, <2>1 DEF Lock, MayLock, Calls
  <2>2. CASE GetTopic(s)
    BY <1>2, <2>2 DEF GetTopic, Calls
  <2>3. CASE Commit(s)
    <3>1. calls[s].at = "locked"
      BY <2>3 DEF Commit, CreateTopic, UpdateTopic, DeleteTopic, SetMembership, SaveArticle,
                  RemoveArticle, CommitNothing, Writing
    <3>2. \E how, item : Answer(s, how, item)
      BY <2>3 DEF Commit, CreateTopic, UpdateTopic, DeleteTopic, SetMembership, SaveArticle,
                  RemoveArticle, CommitNothing
    <3>3. QED BY <1>2, <3>1, <3>2, AnswerGoes
  <2>4. QED BY <1>1, <2>1, <2>2, <2>3 DEF Execute
<1>4. WorkFits(ui, calls'["app"], granted')
  <2>1. CASE s = "app"
    <3>1. granted \subseteq granted'
      BY DEF Serve
    <3>2. /\ calls'[s].at = "done" /\ calls'[s].how = "ok" => Piece(calls[s].op) \in granted'
      BY <2>1 DEF Serve
    <3>3. Choosing(ui) /\ ui.work.kind = "save" /\ calls'[s].at = "done" /\ calls'[s].how = "ok"
            => calls'[s].item.id \notin ui.kept
      BY <1>1, <2>1, NewIsNew
    <3>4. WorkFits(ui, calls[s], granted)
      BY <2>1 DEF SInv
    <3>5. QED BY <1>3, <2>1, <3>1, <3>2, <3>3, <3>4, ServedFits
  <2>2. CASE s # "app"
    <3>1. calls'["app"] = calls["app"] /\ granted' = granted
      BY <1>2, <1>3, <2>2 DEF Serve
    <3>2. QED BY <3>1 DEF SInv
  <2>3. QED BY <2>1, <2>2
<1>5. QED BY <1>1, <1>4, StoreGoesOn

-----------------------------------------------------------------------------
(* The user does something while no work is under way.                     *)
LEMMA RestSteps ==
    ASSUME SInv, ~Busy(ui), NEW d, Fit(d), Apart(d), d.work = ui.work,
           ui' = d \/ Turns(d), UNCHANGED <<store, granted>>, left' \in Budgets
    PROVE  Steps /\ (Unsaved(ui) \ Unsaved(d) \subseteq granted => Keeps)
<1>1. WorkFits(d, calls["app"], granted)
  BY DEF SInv, WorkFits, Busy, AtWork, Doing
<1>2. CASE ui' = d
  BY <1>1, <1>2, TurnsTo DEF Keeps
<1>3. CASE Turns(d)
  BY <1>1, <1>3, TurnsFit DEF Keeps
<1>4. QED BY <1>2, <1>3

LEMMA SameFit ==
    ASSUME NEW u, Fit(u), NEW d \in Screens(Told), SameLists(u, d) PROVE Fit(d)
  BY DEF Fit, ListsOf, SameLists

LEMMA Screen ==
    ASSUME SInv
    PROVE  /\ ui \in Screens(Told) /\ Fit(ui) /\ Apart(ui) /\ AtWork(ui)
           /\ left \in Budgets /\ Knows(Told)
           /\ Open(ui) <=> ui.topic.id # 0
<1>1. ui \in Screens(Told) /\ Fit(ui) /\ Apart(ui) /\ AtWork(ui) /\ left \in Budgets
      /\ Knows(Told)
  BY Numbers DEF SInv, Fit, WorkFits
<1>2. ui.topic \in Told /\ NoItem.id = 0
  BY <1>1 DEF Screens, NoItem
<1>3. Open(ui) <=> ui.topic.id # 0
  BY <1>1, <1>2 DEF Open, Knows
<1>4. QED BY <1>1, <1>3

(* The screen with its refreshes out of date.                              *)
LEMMA BumpRests ==
    ASSUME SInv
    PROVE  LET b == Bump(ui)
           IN  /\ b \in Screens(Told) /\ Fit(b) /\ Apart(b) /\ Alike(ui, b)
               /\ Unsaved(b) = Unsaved(ui) /\ b.topic = ui.topic /\ SameLists(ui, b)
<1>1. /\ Bump(ui) \in Screens(Told) /\ Alike(ui, Bump(ui)) /\ SameLists(ui, Bump(ui))
      /\ Bump(ui).topic = ui.topic
  BY Screen, BumpFits
<1>2. Unsaved(Bump(ui)) = Unsaved(ui) /\ WorkFits(Bump(ui), calls["app"], granted)
  BY <1>1, Screen, AlikeFits DEF SInv
<1>3. Fit(Bump(ui)) /\ Apart(Bump(ui))
  BY <1>1, <1>2, Screen, SameFit DEF WorkFits
<1>4. QED BY <1>1, <1>2, <1>3

LEMMA PressBackFits == ASSUME SInv, PressBack PROVE Steps /\ Keeps
<1> DEFINE d == RequestBack(ui)
<1>1. d \in Screens(Told) /\ SameLists(ui, d) /\ Apart(d) /\ d.work = ui.work
      /\ Unsaved(ui) \ Unsaved(d) \subseteq {}
  BY Screen, RequestBackFits
<1>2. ~Busy(ui) /\ Turns(d)
  BY DEF PressBack
<1> HIDE DEF d
<1>3. Fit(d) /\ left' \in Budgets /\ UNCHANGED <<store, granted>>
  BY <1>1, <1>2, Screen, SameFit DEF Turns
<1>4. QED BY <1>1, <1>2, <1>3, RestSteps

LEMMA DiscardFits == ASSUME SInv, Discard PROVE Steps
<1> DEFINE d == GoBack(ui)
<1>1. d \in Screens(Told) /\ SameLists(ui, d) /\ Apart(d) /\ d.work = ui.work
  BY Screen, GoBackFits
<1>2. ~Busy(ui) /\ Turns(d)
  BY Screen DEF Discard, AtWork
<1> HIDE DEF d
<1>3. Fit(d) /\ left' \in Budgets /\ UNCHANGED <<store, granted>>
  BY <1>1, <1>2, Screen, SameFit DEF Turns
<1>4. QED BY <1>1, <1>2, <1>3, RestSteps

(* What can be seen of u and is the same in d.                             *)
LEMMA SameUnsaved ==
    ASSUME NEW u, NEW d, d.open = u.open, d.editor = u.editor, d.picker = u.picker,
           d.selected = u.selected, d.topic = u.topic, d.kept = u.kept, d.chosen = u.chosen
    PROVE  Unsaved(d) = Unsaved(u)
<1>1. MemberOps(d) = MemberOps(u) /\ Picks(d) = Picks(u) /\ Edit(d) = Edit(u)
  BY DEF MemberOps, Picks, AddOps, Edit, EditorDirty
<1>2. QED BY <1>1, UnsavedParts

LEMMA KeepWritingFits == ASSUME SInv, KeepWriting PROVE Steps /\ Keeps
<1> DEFINE d == [ui EXCEPT !.leaving = FALSE]
<1>1. ~Busy(ui) /\ Turns(d)
  BY Screen DEF KeepWriting, AtWork
<1>2. /\ d \in Screens(Told) /\ SameLists(ui, d) /\ Apart(d) /\ d.work = ui.work
      /\ d.open = ui.open /\ d.editor = ui.editor /\ d.picker = ui.picker
      /\ d.selected = ui.selected /\ d.topic = ui.topic /\ d.kept = ui.kept
      /\ d.chosen = ui.chosen
  <2>1. /\ d \in Screens(Told) /\ SameLists(ui, d) /\ d.work = ui.work
        /\ d.open = ui.open /\ d.editor = ui.editor /\ d.picker = ui.picker
        /\ d.selected = ui.selected /\ d.topic = ui.topic /\ d.kept = ui.kept
        /\ d.chosen = ui.chosen /\ d.mode = ui.mode /\ d.deleting = ui.deleting
        /\ d.load = ui.load /\ d.member = ui.member /\ d.conflict = ui.conflict
    BY Screen DEF Screens, SameLists
  <2> HIDE DEF d
  <2>2. Apart(d)
    BY <2>1, Screen DEF Apart, Choosing
  <2>3. QED BY <2>1, <2>2
<1> HIDE DEF d
<1>3. Fit(d) /\ left' \in Budgets /\ UNCHANGED <<store, granted>>
  BY <1>1, <1>2, Screen, SameFit DEF Turns
<1>4. Unsaved(d) = Unsaved(ui)
  BY <1>2, SameUnsaved
<1>5. QED BY <1>1, <1>2, <1>3, <1>4, RestSteps

(* An editor opens.                                                        *)
LEMMA OpenEditorFits ==
    ASSUME SInv, ~Busy(ui), NEW item \in Told, OpenEditor(item),
           ~ui.editor.open, ~ui.picker,
           Choosing(ui) => item = NoItem /\ ui.member # "loading"
    PROVE  Steps /\ Keeps
<1> DEFINE b == Bump(ui)
           e == IF item = NoItem THEN [NoEditor EXCEPT !.open = TRUE]
                ELSE [open |-> TRUE, base |-> item, name |-> item.name, text |-> item.text,
                      name0 |-> item.name, text0 |-> item.text]
           d == [b EXCEPT !.conflict = FALSE, !.editor = e]
<1>1. Turns(d)
  BY DEF OpenEditor
<1>2. /\ b \in Screens(Told) /\ Fit(b) /\ Apart(b) /\ Alike(ui, b)
      /\ Unsaved(b) = Unsaved(ui) /\ b.topic = ui.topic /\ SameLists(ui, b)
  BY BumpRests
<1> HIDE DEF b
<1>3. e \in Editors(Told) /\ e.open /\ e.base = item /\ e.name = e.name0 /\ e.text = e.text0
  <2>1. item.name \in Names /\ item.text \in Texts
    BY Screen, IdsOfTold
  <2>2. NoEditor \in Editors(Told) /\ NoEditor.base = NoItem
        /\ NoEditor.name = NoEditor.name0 /\ NoEditor.text = NoEditor.text0
    BY Screen, NothingKnown DEF NoEditor
  <2>3. CASE item = NoItem
    BY <2>2, <2>3 DEF Editors
  <2>4. CASE item # NoItem
    BY <2>1, <2>4 DEF Editors
  <2>5. QED BY <2>3, <2>4
<1> HIDE DEF e
<1>4. /\ d \in Screens(Told) /\ SameLists(b, d) /\ d.work = b.work
      /\ d.open = b.open /\ d.editor = e /\ d.picker = b.picker
      /\ d.selected = b.selected /\ d.topic = b.topic /\ d.kept = b.kept
      /\ d.chosen = b.chosen /\ d.mode = b.mode /\ d.deleting = b.deleting
      /\ d.load = b.load /\ d.member = b.member /\ d.conflict = FALSE
  BY <1>2, <1>3 DEF Screens, SameLists
<1> HIDE DEF d
<1>5. Apart(d)
  BY <1>2, <1>3, <1>4 DEF Apart, Choosing, Alike
<1>6. Fit(d) /\ left' \in Budgets /\ UNCHANGED <<store, granted>> /\ d.work = ui.work
  BY <1>1, <1>2, <1>4, Screen, SameFit DEF Turns, Alike
<1>7. Unsaved(b) \ Unsaved(d) \subseteq granted
  <2>1. Picks(d) = Picks(b) /\ MemberOps(d) = MemberOps(b)
    BY <1>4 DEF MemberOps, Picks, AddOps
  <2>2. Edit(b) = {}
    BY <1>2 DEF Edit, EditorDirty, Alike
  <2>3. QED BY <1>4, <2>1, <2>2, PartsKept
<1>8. QED BY <1>1, <1>2, <1>5, <1>6, <1>7, RestSteps

LEMMA NewTopicFits == ASSUME SInv, NewTopic PROVE Steps /\ Keeps
<1>1. ~ui.picker
  BY Screen DEF NewTopic, ShowsTopics, Apart
<1>2. NoItem \in Told
  BY Screen DEF Knows
<1>3. QED BY <1>1, <1>2, OpenEditorFits DEF NewTopic, ShowsTopics

LEMMA EditTopicFits == ASSUME SInv, EditTopic PROVE Steps /\ Keeps
<1>1. ui.topic \in Told /\ ~Choosing(ui)
  BY Screen DEF Screens, EditTopic, ShowsTopic
<1>2. QED BY <1>1, OpenEditorFits DEF EditTopic, ShowsTopic

LEMMA TypeInEditorFits == ASSUME SInv, TypeInEditor PROVE Steps
<1>1. /\ ui.editor.open /\ ~Busy(ui) /\ UNCHANGED <<store, granted>> /\ left' \in Budgets
  BY SpendFits DEF SInv, TypeInEditor, ShowsEditor
<1>2. PICK n, x : /\ n \in Names \cup {""} /\ x \in Texts
                  /\ \/ ui' = [ui EXCEPT !.editor.name = n]
                     \/ ui' = [ui EXCEPT !.editor.text = x]
  <2>1. left.names \subseteq Names /\ Texts # {}
    BY Screen, StoreAssumption DEF Budgets
  <2>2. QED BY <2>1 DEF TypeInEditor
<1>3. ui.editor \in Editors(Told)
  BY Screen DEF Screens
<1> DEFINE e == IF ui' = [ui EXCEPT !.editor.name = n] THEN [ui.editor EXCEPT !.name = n]
                ELSE [ui.editor EXCEPT !.text = x]
           d == [ui EXCEPT !.editor = e]
<1>4. e \in Editors(Told) /\ e.open = ui.editor.open /\ e.base = ui.editor.base
  BY <1>2, <1>3 DEF Editors
<1>5. ui' = d
  BY <1>2, Screen DEF Screens
<1> HIDE DEF e
<1>6. /\ d \in Screens(Told) /\ SameLists(ui, d) /\ d.work = ui.work
      /\ d.open = ui.open /\ d.editor = e /\ d.picker = ui.picker
      /\ d.topic = ui.topic /\ d.kept = ui.kept
      /\ d.chosen = ui.chosen /\ d.mode = ui.mode /\ d.deleting = ui.deleting
      /\ d.load = ui.load /\ d.member = ui.member /\ d.conflict = ui.conflict
  BY <1>4, Screen DEF Screens, SameLists
<1> HIDE DEF d
<1>7. Apart(d)
  BY <1>1, <1>4, <1>6, Screen DEF Apart, Choosing
<1>8. Fit(d)
  BY <1>6, Screen, SameFit
<1>9. QED BY <1>1, <1>5, <1>6, <1>7, <1>8, RestSteps

(* The question whether to delete the topic, asked or taken back.          *)
LEMMA AskDeleteFits == ASSUME SInv, AskDelete \/ CancelDelete PROVE Steps /\ Keeps
<1>1. ~Busy(ui) /\ UNCHANGED <<store, granted>> /\ left' \in Budgets
  BY Screen DEF AskDelete, CancelDelete, Turns
<1>2. PICK x \in BOOLEAN, y \in BOOLEAN :
         /\ Turns([ui EXCEPT !.deleting = x, !.conflict = y])
         /\ y => ui.conflict
         /\ x => ~ui.picker
  <2>1. CASE AskDelete
    BY <2>1 DEF AskDelete
  <2>2. CASE CancelDelete
    <3>1. [ui EXCEPT !.deleting = FALSE] = [ui EXCEPT !.deleting = FALSE, !.conflict = ui.conflict]
          /\ ui.conflict \in BOOLEAN
      BY Screen DEF Screens
    <3>2. QED BY <2>2, <3>1 DEF CancelDelete
  <2>3. QED BY <2>1, <2>2
<1> DEFINE d == [ui EXCEPT !.deleting = x, !.conflict = y]
<1>3. /\ d \in Screens(Told) /\ SameLists(ui, d) /\ d.work = ui.work
      /\ d.open = ui.open /\ d.editor = ui.editor /\ d.picker = ui.picker
      /\ d.topic = ui.topic /\ d.kept = ui.kept /\ d.selected = ui.selected
      /\ d.chosen = ui.chosen /\ d.mode = ui.mode /\ d.deleting = x
      /\ d.load = ui.load /\ d.member = ui.member /\ d.conflict = y
  BY Screen DEF Screens, SameLists
<1>4. Turns(d)
  BY <1>2
<1> HIDE DEF d
<1>5. Apart(d)
  BY <1>2, <1>3, Screen DEF Apart, Choosing
<1>6. Fit(d) /\ Unsaved(d) = Unsaved(ui)
  BY <1>3, Screen, SameFit, SameUnsaved
<1>7. QED BY <1>1, <1>3, <1>4, <1>5, <1>6, RestSteps

LEMMA OpenTopicFits == ASSUME SInv, OpenTopic PROVE Steps /\ Keeps
<1> DEFINE b == Bump(ui)
<1>1. ~Busy(ui) /\ ~Choosing(ui) /\ ~ui.editor.open /\ ~ui.picker
  BY Screen DEF OpenTopic, ShowsTopics, Apart
<1>2. PICK item \in Range(ui.topics.items) :
         Turns([b EXCEPT !.topic = item, !.conflict = FALSE, !.articleTyped = ""])
  BY DEF OpenTopic
<1>3. item \in Told
  BY Screen DEF Screens, Pages, Range
<1>4. /\ b \in Screens(Told) /\ Fit(b) /\ Apart(b) /\ Alike(ui, b)
      /\ Unsaved(b) = Unsaved(ui) /\ SameLists(ui, b)
  BY BumpRests
<1> HIDE DEF b
<1> DEFINE d == [b EXCEPT !.topic = item, !.conflict = FALSE, !.articleTyped = ""]
<1>5. d \in Screens(Told)
  BY <1>3, <1>4, EmptyTyped DEF Screens
<1>6. /\ SameLists(b, d) /\ d.work = b.work
      /\ d.open = b.open /\ d.editor = b.editor /\ d.picker = b.picker
      /\ d.kept = b.kept
      /\ d.chosen = b.chosen /\ d.mode = b.mode
      /\ d.load = b.load /\ d.member = b.member /\ d.conflict = FALSE
  BY <1>4 DEF Screens, SameLists
<1>7. Turns(d)
  BY <1>2
<1> HIDE DEF d
<1>8. Apart(d)
  BY <1>1, <1>4, <1>6 DEF Apart, Choosing, Alike
<1>9. Fit(d) /\ left' \in Budgets /\ UNCHANGED <<store, granted>> /\ d.work = ui.work
  BY <1>4, <1>5, <1>6, <1>7, Screen, SameFit DEF Turns, Alike
<1>10. Unsaved(b) \ Unsaved(d) \subseteq granted
  <2>1. Picks(b) = {} /\ MemberOps(d) = MemberOps(b) /\ Edit(d) = Edit(b)
    BY <1>1, <1>4, <1>6 DEF MemberOps, Picks, Edit, EditorDirty, Alike
  <2>2. QED BY <1>6, <2>1, PartsKept
<1>11. QED BY <1>1, <1>4, <1>7, <1>8, <1>9, <1>10, RestSteps

-----------------------------------------------------------------------------
(* Choosing the topics of an article.                                      *)
LEMMA ToggleTopicFits == ASSUME SInv, ToggleTopic PROVE Steps
<1>1. /\ Choosing(ui) /\ ~Busy(ui) /\ UNCHANGED <<store, granted>> /\ left' \in Budgets
  BY SpendFits DEF SInv, ToggleTopic
<1>2. PICK item \in Range(ui.topics.items) :
         ui' = [ui EXCEPT !.chosen = Toggled(@, item.id)]
  BY DEF ToggleTopic
<1>3. item \in Told
  BY Screen DEF Screens, Pages, Range
<1> DEFINE chosen == Toggled(ui.chosen, item.id)
           d == [ui EXCEPT !.chosen = chosen]
<1>4. chosen \in SUBSET Ids(Told)
  <2>1. item.id \in Ids(Told) /\ ui.chosen \in SUBSET Ids(Told)
    BY <1>3, Screen, IdsOfTold DEF Screens
  <2>2. QED BY <2>1 DEF Toggled
<1>5. ui' = d
  BY <1>2
<1> HIDE DEF chosen
<1>6. /\ d \in Screens(Told) /\ SameLists(ui, d) /\ d.work = ui.work
      /\ d.editor = ui.editor /\ d.picker = ui.picker /\ d.topic = ui.topic
      /\ d.mode = ui.mode
      /\ d.load = ui.load /\ d.member = ui.member /\ d.conflict = ui.conflict
  BY <1>4, Screen DEF Screens, SameLists
<1> HIDE DEF d
<1>7. Apart(d)
  BY <1>1, <1>6, Screen DEF Apart, Choosing
<1>8. Fit(d)
  BY <1>6, Screen, SameFit
<1>9. QED BY <1>1, <1>5, <1>6, <1>7, <1>8, RestSteps

(* While the article's topics are not known, nothing can be saved.         *)
LEMMA UnknownIsIdle ==
    ASSUME SInv, Choosing(ui), ui.member # "ready",
           ~ui.editor.open \/ ui.member = "loading"
    PROVE  ~Busy(ui)
<1>1. /\ ~ui.editor.open /\ ~ui.picker /\ ui.topic.id = 0
  BY Screen DEF Apart
<1>2. Doing(ui, calls["app"].op, granted) /\ ui.work.kind \in WorkKinds
  BY Screen DEF SInv, WorkFits, Screens, Works
<1>3. QED BY <1>1, <1>2 DEF Doing, Busy, WorkKinds

(* The state of the reading of the article's topics.                       *)
LEMMA MembersTo ==
    ASSUME SInv, ~Busy(ui), Choosing(ui), NEW load \in MemberLoads(Told),
           NEW member \in {"loading", "ready", "failed"},
           load.on # "no" => member = "loading",
           ~ui.editor.open,
           NEW d, d = [ui EXCEPT !.load = load, !.member = member],
           ui' = d \/ Turns(d), UNCHANGED <<store, granted>>, left' \in Budgets
    PROVE  Steps /\ Keeps
<1>1. /\ d \in Screens(Told) /\ SameLists(ui, d) /\ d.work = ui.work
      /\ d.open = ui.open /\ d.selected = ui.selected /\ d.chosen = ui.chosen
      /\ d.editor = ui.editor /\ d.picker = ui.picker /\ d.topic = ui.topic
      /\ d.mode = ui.mode /\ d.kept = ui.kept
      /\ d.load = load /\ d.member = member /\ d.conflict = ui.conflict
  BY Screen DEF Screens, SameLists
<1>2. Apart(d)
  BY <1>1, Screen DEF Apart, Choosing
<1>3. Fit(d) /\ Unsaved(d) = Unsaved(ui)
  BY <1>1, Screen, SameFit, SameUnsaved
<1>4. QED BY <1>1, <1>2, <1>3, RestSteps

LEMMA RetryMembershipsFits == ASSUME SInv, RetryMemberships PROVE Steps /\ Keeps
<1> DEFINE load == [NoLoad EXCEPT !.on = "sent"]
           d == [ui EXCEPT !.load = load, !.member = "loading"]
<1>1. Choosing(ui) /\ ~ui.editor.open /\ ui.member = "failed"
  BY DEF RetryMemberships, ShowsTopics
<1>2. ~Busy(ui) /\ load \in MemberLoads(Told)
  BY <1>1, UnknownIsIdle, Screen, NothingKnown
<1>3. Turns(d)
  <2>1. d = [ui EXCEPT !.member = "loading", !.load = load]
    BY Screen DEF Screens
  <2>2. QED BY <2>1 DEF RetryMemberships
<1>4. UNCHANGED <<store, granted>> /\ left' \in Budgets
  BY <1>3, Screen DEF Turns
<1> HIDE DEF load
<1>5. d = [ui EXCEPT !.load = load, !.member = "loading"]
  OBVIOUS
<1> HIDE DEF d
<1>6. QED BY <1>1, <1>2, <1>3, <1>4, <1>5, MembersTo

LEMMA Loading ==
    ASSUME SInv, ui.load.on # "no"
    PROVE  /\ Choosing(ui) /\ ui.member = "loading" /\ ~ui.editor.open /\ ~Busy(ui)
           /\ ui.load \in MemberLoads(Told)
<1>1. Choosing(ui) /\ ui.member = "loading" /\ ~ui.editor.open
  BY Screen DEF Apart
<1>2. QED BY <1>1, UnknownIsIdle, Screen DEF Screens

LEMMA ServeMembersFits == ASSUME SInv, ServeMembers PROVE Steps /\ Keeps
<1> DEFINE S == TopicsOf(Picked)
           rows == PageOf(S, ui.load.cursor)
           next == NextOf(S, ui.load.cursor)
           load == IF Picked \in articles
                   THEN [ui.load EXCEPT !.on = "ok", !.items = rows, !.next = next]
                   ELSE [ui.load EXCEPT !.on = "missing"]
           d == [ui EXCEPT !.load = load]
<1>1. ui.load.on = "sent" /\ ui' = d /\ UNCHANGED <<store, granted, left>>
  BY DEF ServeMembers, Answers
<1>2. /\ Choosing(ui) /\ ui.member = "loading" /\ ~ui.editor.open /\ ~Busy(ui)
      /\ ui.load \in MemberLoads(Told)
  BY <1>1, Loading
<1>3. rows \in Seq(Ids(Told)) /\ next \in Nat
  <2>1. issued \in Nat /\ S \in SUBSET (1 .. issued) /\ S \subseteq Live
    <3>1. issued \in Nat /\ Live \subseteq 1 .. issued
      BY Numbers DEF SInv, IInv, TablesSound
    <3>2. S \subseteq Live
      BY DEF TopicsOf
    <3> HIDE DEF S
    <3>3. QED BY <3>1, <3>2
  <2>2. S \subseteq Ids(Told)
    <3>1. ASSUME NEW t \in Live PROVE t \in Ids(Told)
      BY Screen, DtoTold, IdsOfTold DEF SInv, IInv
    <3>2. QED BY <2>1, <3>1
  <2>3. ui.load.cursor \in Nat
    BY <1>2 DEF MemberLoads
  <2> HIDE DEF S
  <2>4. rows \in Seq(S) /\ next \in Nat
    BY <2>1, <2>3, PageHolds
  <2>5. QED BY <2>2, <2>4, SeqGrows
<1> HIDE DEF rows, next
<1>4. load \in MemberLoads(Told)
  <2> HIDE DEF Ids
  <2>1. QED BY <1>2, <1>3 DEF MemberLoads
<1> HIDE DEF load
<1>5. d = [ui EXCEPT !.load = load, !.member = "loading"]
  BY <1>2, Screen DEF Screens
<1>6. left' \in Budgets
  BY <1>1, Screen
<1> HIDE DEF d
<1>7. QED BY <1>1, <1>2, <1>4, <1>5, <1>6, MembersTo

LEMMA LoseMembersFits == ASSUME SInv, LoseMembers PROVE Steps /\ Keeps
<1> DEFINE d == [ui EXCEPT !.load = NoLoad, !.member = "failed"]
<1>1. ui.load.on # "no" /\ ui' = d /\ UNCHANGED <<store, granted>> /\ left' \in Budgets
  BY SpendFits DEF LoseMembers, SInv
<1>2. Choosing(ui) /\ ~ui.editor.open /\ ~Busy(ui)
  BY <1>1, Loading
<1>3. NoLoad \in MemberLoads(Told) /\ NoLoad.on = "no"
  BY Screen, NothingKnown DEF NoLoad
<1>4. d = [ui EXCEPT !.load = NoLoad, !.member = "failed"]
  OBVIOUS
<1> HIDE DEF d
<1>5. QED BY <1>1, <1>2, <1>3, <1>4, MembersTo

LEMMA HearMembersFits == ASSUME SInv, HearMembers PROVE Steps
<1> DEFINE got == ui.load.got \cup Range(ui.load.items)
           next == [NoLoad EXCEPT !.on = "sent", !.got = got, !.cursor = ui.load.next]
<1>1. /\ Choosing(ui) /\ ui.member = "loading" /\ ~ui.editor.open /\ ~Busy(ui)
      /\ ui.load \in MemberLoads(Told)
  BY Loading DEF HearMembers
<1>2. NoLoad \in MemberLoads(Told) /\ NoLoad.on = "no"
  BY Screen, NothingKnown DEF NoLoad
<1>3. got \in SUBSET Ids(Told)
  <2> HIDE DEF Ids
  <2>1. ui.load.got \in SUBSET Ids(Told) /\ ui.load.items \in Seq(Ids(Told))
    BY <1>1 DEF MemberLoads
  <2>2. QED BY <2>1 DEF Range
<1>4. UNCHANGED <<store, granted>> /\ left' \in Budgets
  BY Screen DEF HearMembers, Answers
<1>5. CASE ui' = [ui EXCEPT !.load = NoLoad, !.member = "failed"]
  <2> DEFINE d == [ui EXCEPT !.load = NoLoad, !.member = "failed"]
  <2>1. d = [ui EXCEPT !.load = NoLoad, !.member = "failed"] /\ ui' = d
    BY <1>5
  <2> HIDE DEF d
  <2>2. QED BY <1>1, <1>2, <1>4, <2>1, MembersTo
<1>6. CASE ui' = [ui EXCEPT !.load = next]
  <2> DEFINE d == [ui EXCEPT !.load = next]
  <2>1. next \in MemberLoads(Told)
    <3> HIDE DEF Ids, got
    <3>1. QED BY <1>1, <1>2, <1>3 DEF MemberLoads
  <2> HIDE DEF next
  <2>2. d = [ui EXCEPT !.load = next, !.member = "loading"] /\ ui' = d
    BY <1>1, <1>6, Screen DEF Screens
  <2> HIDE DEF d
  <2>3. QED BY <1>1, <1>4, <2>1, <2>2, MembersTo
<1>7. CASE ui' = [ui EXCEPT !.load = NoLoad, !.member = "ready", !.kept = got, !.chosen = got]
  <2> HIDE DEF got
  <2> DEFINE d == [ui EXCEPT !.load = NoLoad, !.member = "ready", !.kept = got, !.chosen = got]
  <2>1. d \in Screens(Told)
    BY <1>2, <1>3, Screen DEF Screens
  <2>2. /\ SameLists(ui, d) /\ d.work = ui.work
        /\ d.editor = ui.editor /\ d.picker = ui.picker /\ d.topic = ui.topic
        /\ d.mode = ui.mode
        /\ d.load = NoLoad /\ d.member = "ready" /\ d.conflict = ui.conflict
    BY Screen DEF Screens, SameLists
  <2>3. ui' = d
    BY <1>7
  <2> HIDE DEF d
  <2>4. Apart(d)
    BY <1>1, <1>2, <2>2, Screen DEF Apart, Choosing
  <2>5. Fit(d)
    BY <2>1, <2>2, Screen, SameFit
  <2>6. QED BY <1>1, <1>4, <2>2, <2>3, <2>4, <2>5, RestSteps
<1>8. QED BY <1>5, <1>6, <1>7 DEF HearMembers, Answers

-----------------------------------------------------------------------------
(* Picking articles, and reading one.                                      *)
LEMMA OpenPickerFits == ASSUME SInv, OpenPicker PROVE Steps /\ Keeps
<1> DEFINE d == [ui EXCEPT !.picker = TRUE, !.articleTyped = "", !.conflict = FALSE]
<1>1. /\ ~ui.picker /\ ~Busy(ui) /\ ~ui.editor.open /\ ~ui.deleting /\ ~Choosing(ui)
      /\ ui.topic.id # 0 /\ Turns(d)
  BY Screen DEF OpenPicker, ShowsTopic
<1>2. d \in Screens(Told)
  BY Screen, EmptyTyped DEF Screens
<1>3. /\ SameLists(ui, d) /\ d.work = ui.work /\ d.open = ui.open
      /\ d.editor = ui.editor /\ d.topic = ui.topic /\ d.deleting = ui.deleting
      /\ d.mode = ui.mode /\ d.kept = ui.kept /\ d.chosen = ui.chosen
      /\ d.load = ui.load /\ d.member = ui.member /\ d.conflict = FALSE
  BY Screen DEF Screens, SameLists
<1> HIDE DEF d
<1>4. Apart(d)
  BY <1>1, <1>3, Screen DEF Apart, Choosing
<1>5. Fit(d) /\ UNCHANGED <<store, granted>> /\ left' \in Budgets
  BY <1>1, <1>2, <1>3, Screen, SameFit DEF Turns
<1>6. Unsaved(ui) \ Unsaved(d) \subseteq granted
  <2>1. Picks(ui) = {} /\ MemberOps(d) = MemberOps(ui) /\ Edit(d) = Edit(ui)
    BY <1>1, <1>3 DEF MemberOps, Picks, Edit, EditorDirty
  <2>2. QED BY <1>3, <2>1, PartsKept
<1>7. QED BY <1>1, <1>3, <1>4, <1>5, <1>6, RestSteps

LEMMA ToggleArticleFits == ASSUME SInv, ToggleArticle PROVE Steps
<1>1. /\ ~Busy(ui) /\ UNCHANGED <<store, granted>> /\ left' \in Budgets
  BY SpendFits DEF SInv, ToggleArticle
<1>2. PICK item \in Range(ui.articles.items) :
         ui' = [ui EXCEPT !.selected = Toggled(@, item.id)]
  BY DEF ToggleArticle
<1>3. item.id \in 0 .. MaxArticle
  <2>1. ui.articles.items \in Seq(ArticleItems)
    BY Screen DEF Screens, Pages
  <2>2. item \in ArticleItems
    BY <2>1 DEF Range
  <2>3. QED BY <2>2, StoreAssumption DEF ArticleItems, ArticleIds, NoItem
<1> DEFINE selected == Toggled(ui.selected, item.id)
           d == [ui EXCEPT !.selected = selected]
<1>4. selected \in SUBSET (0 .. MaxArticle)
  BY <1>3, Screen DEF Screens, Toggled
<1>5. ui' = d
  BY <1>2
<1> HIDE DEF selected
<1>6. /\ d \in Screens(Told) /\ SameLists(ui, d) /\ d.work = ui.work
      /\ d.editor = ui.editor /\ d.picker = ui.picker /\ d.topic = ui.topic
      /\ d.mode = ui.mode /\ d.kept = ui.kept /\ d.chosen = ui.chosen
      /\ d.deleting = ui.deleting
      /\ d.load = ui.load /\ d.member = ui.member /\ d.conflict = ui.conflict
  BY <1>4, Screen DEF Screens, SameLists
<1> HIDE DEF d
<1>7. Apart(d)
  BY <1>6, Screen DEF Apart, Choosing
<1>8. Fit(d)
  BY <1>6, Screen, SameFit
<1>9. QED BY <1>1, <1>5, <1>6, <1>7, <1>8, RestSteps

(* The screen is hidden, or comes back; what it read is read again.        *)
LEMMA AwayFits ==
    ASSUME SInv, ~Busy(ui), NEW d \in Screens(Told), Fit(d),
           d.work = ui.work, d.open = ui.open,
           d.editor = ui.editor, d.picker = ui.picker, d.topic = ui.topic,
           d.selected = ui.selected, d.mode = ui.mode, d.kept = ui.kept,
           d.chosen = ui.chosen, d.deleting = ui.deleting, d.load = ui.load,
           d.member = ui.member, d.conflict = ui.conflict,
           ui' = d \/ Turns(d), UNCHANGED <<store, granted>>, left' \in Budgets
    PROVE  Steps /\ Keeps
<1>1. Apart(d)
  BY Screen DEF Apart, Choosing
<1>2. Unsaved(d) = Unsaved(ui)
  BY SameUnsaved
<1>3. QED BY <1>1, <1>2, RestSteps

LEMMA ReadArticleFits == ASSUME SInv, ReadArticle PROVE Steps /\ Keeps
<1> DEFINE b == Bump(ui)
           d == [b EXCEPT !.active = FALSE]
<1>1. /\ ~Busy(ui) /\ ui' = d /\ UNCHANGED <<store, granted>> /\ left' \in Budgets
  BY SpendFits DEF SInv, ReadArticle
<1>2. b \in Screens(Told) /\ Fit(b) /\ Alike(ui, b) /\ b.topic = ui.topic
  BY BumpRests
<1> HIDE DEF b
<1>3. /\ d \in Screens(Told) /\ SameLists(b, d) /\ d.work = b.work /\ d.open = b.open
      /\ d.editor = b.editor /\ d.picker = b.picker /\ d.topic = b.topic
      /\ d.selected = b.selected /\ d.mode = b.mode /\ d.kept = b.kept
      /\ d.chosen = b.chosen /\ d.deleting = b.deleting /\ d.load = b.load
      /\ d.member = b.member /\ d.conflict = b.conflict
  BY <1>2 DEF Screens, SameLists
<1> HIDE DEF d
<1>4. Fit(d)
  BY <1>2, <1>3, SameFit
<1>5. QED BY <1>1, <1>2, <1>3, <1>4, AwayFits DEF Alike

LEMMA ReturnFits == ASSUME SInv, Return PROVE Steps /\ Keeps
<1> DEFINE b == Bump(ui)
           back == [b EXCEPT !.active = TRUE]
           new == [fresh |-> TRUE, id |-> ui.topic.id, on |-> "sent", item |-> NoItem]
           R == back.refreshes \cup {new}
           p == Reload(back.topics)
           q == Reload(back.articles)
<1>1. /\ ~Busy(ui)
      /\ \/ Turns(back)
         \/ Turns([back EXCEPT !.topics = p, !.articles = q, !.refreshes = R])
         \/ Turns([back EXCEPT !.topics = p])
  BY Screen DEF Return, AtWork
<1>2. b \in Screens(Told) /\ Fit(b) /\ Alike(ui, b) /\ b.topic = ui.topic
  BY BumpRests
<1> HIDE DEF b
<1>3. /\ back \in Screens(Told) /\ SameLists(b, back) /\ back.work = b.work
      /\ back.open = b.open /\ back.refreshes = b.refreshes
      /\ back.editor = b.editor /\ back.picker = b.picker /\ back.topic = b.topic
      /\ back.selected = b.selected /\ back.mode = b.mode /\ back.kept = b.kept
      /\ back.chosen = b.chosen /\ back.deleting = b.deleting /\ back.load = b.load
      /\ back.member = b.member /\ back.conflict = b.conflict
  BY <1>2 DEF Screens, SameLists
<1> HIDE DEF back
<1>4. Fit(back)
  BY <1>2, <1>3, SameFit
<1>5. issued \in Nat /\ arrived \in Nat
  BY Numbers DEF SInv
<1>6. p \in Pages(Told, {"topics"}) /\ ListSound(p, "topics", issued, Live)
  BY <1>4, <1>5, ListsFit, ReloadSound
<1>7. q \in Pages(ArticleItems, ArticleKinds) /\ ListSound(q, "articles", arrived, articles)
  BY <1>4, <1>5, ListsFit, ReloadSound
<1>8. R \in SUBSET Refreshes(Told)
  <2>1. ui.topic.id \in 0 .. MaxTopic /\ NoItem \in Told
    BY Screen, IdsOfTold DEF Screens, Knows
  <2>2. new \in Refreshes(Told)
    BY <2>1 DEF Refreshes
  <2>3. QED BY <1>3, <2>2 DEF Screens
<1> HIDE DEF p, q, R
<1>9. UNCHANGED <<store, granted>> /\ left' \in Budgets
  BY <1>1, Screen DEF Turns
<1>10. CASE Turns(back)
  BY <1>1, <1>2, <1>3, <1>4, <1>9, <1>10, AwayFits DEF Alike
<1>11. CASE Turns([back EXCEPT !.topics = p, !.articles = q, !.refreshes = R])
  <2> DEFINE d == [back EXCEPT !.topics = p, !.articles = q, !.refreshes = R]
  <2>1. d \in Screens(Told)
    BY <1>3, <1>6, <1>7, <1>8 DEF Screens
  <2>2. /\ d.topics = p /\ d.articles = q /\ d.work = back.work
        /\ d.open = back.open
        /\ d.editor = back.editor /\ d.picker = back.picker /\ d.topic = back.topic
        /\ d.selected = back.selected /\ d.mode = back.mode /\ d.kept = back.kept
        /\ d.chosen = back.chosen /\ d.deleting = back.deleting /\ d.load = back.load
        /\ d.member = back.member /\ d.conflict = back.conflict
    BY <1>3 DEF Screens
  <2>3. Turns(d)
    BY <1>11
  <2> HIDE DEF d
  <2>4. Fit(d)
    BY <1>6, <1>7, <2>1, <2>2 DEF Fit, ListsOf
  <2>5. QED BY <1>1, <1>2, <1>3, <1>9, <2>1, <2>2, <2>3, <2>4, AwayFits DEF Alike
<1>12. CASE Turns([back EXCEPT !.topics = p])
  <2> DEFINE d == [back EXCEPT !.topics = p]
  <2>1. Fit(d) /\ Alike(back, d)
    BY <1>4, <1>6, TopicsFit
  <2>2. d.topic = back.topic
    BY <1>3 DEF Screens
  <2>3. Turns(d)
    BY <1>12
  <2> HIDE DEF d
  <2>4. QED BY <1>1, <1>2, <1>3, <1>9, <2>1, <2>2, <2>3, AwayFits DEF Alike, Fit
<1>13. QED BY <1>1, <1>10, <1>11, <1>12

-----------------------------------------------------------------------------
(* A work begins.                                                          *)
Work(kind, todo, item) == [kind |-> kind, todo |-> todo, failed |-> {}, item |-> item]

SameFields(u, d) ==
    /\ d.mode = u.mode /\ d.open = u.open /\ d.picker = u.picker
    /\ d.selected = u.selected /\ d.editor = u.editor /\ d.topic = u.topic
    /\ d.kept = u.kept /\ d.chosen = u.chosen /\ d.member = u.member

LEMMA StartFits ==
    ASSUME SInv, NEW kind \in WorkKinds \ {"none"}, NEW ops \in SUBSET OpsOn(Told),
           NEW item \in Told, Start(ui, kind, ops, item),
           ui.open, ui.active, ~ui.leaving,
           \A d, first : /\ first \in ops /\ SameFields(ui, d)
                         /\ d.work = Work(kind, ops \ {first}, item)
                         => Doing(d, first, {})
    PROVE  Steps /\ Keeps
<1> DEFINE b == Bump(ui)
<1>1. PICK first \in ops :
         /\ ui' = [b EXCEPT !.conflict = FALSE, !.work = Work(kind, ops \ {first}, item)]
         /\ calls' = [calls EXCEPT !["app"] = Sent(first)]
  BY DEF Start, Next1, Work
<1>2. /\ ~Busy(ui) /\ granted' = {} /\ UNCHANGED <<tables, lock>> /\ left' \in Budgets
  BY SpendFits DEF Start, SInv
<1>3. /\ b \in Screens(Told) /\ Fit(b) /\ Apart(b) /\ Alike(ui, b)
      /\ b.topic = ui.topic
  BY BumpRests
<1> HIDE DEF b
<1> DEFINE w == Work(kind, ops \ {first}, item)
           d == [b EXCEPT !.conflict = FALSE, !.work = w]
<1>4. w \in Works(Told) /\ w.kind = kind
  BY DEF Work, Works
<1>5. ui' = d
  BY <1>1
<1>6. w = Work(kind, ops \ {first}, item)
  OBVIOUS
<1> HIDE DEF w
<1>7. /\ d \in Screens(Told) /\ SameLists(b, d) /\ SameFields(b, d) /\ d.work = w
      /\ d.active = b.active /\ d.leaving = b.leaving /\ d.deleting = b.deleting
      /\ d.load = b.load /\ d.conflict = FALSE
  BY <1>3, <1>4 DEF Screens, SameLists, SameFields
<1> HIDE DEF d
<1>8. Fit(d) /\ SameFields(ui, d)
  BY <1>3, <1>7, SameFit DEF SameFields, Alike
<1>9. Apart(d) /\ AtWork(d) /\ Busy(d)
  BY <1>3, <1>4, <1>7 DEF Apart, AtWork, Busy, Choosing, SameFields, Alike
<1>10. Doing(d, first, {})
  BY <1>6, <1>7, <1>8
<1>11. /\ first \in Ops /\ Genuine(first.base) /\ Sent(first) \in NewCalls
  BY DEF OpsOn, Told, NewCalls
<1>12. Sent(first).at = "sent" /\ Sent(first).op = first
  BY <1>11, SentTyped
<1>13. /\ calls'["app"] = Sent(first) /\ "app" \in Sessions /\ calls["app"].at = "idle"
  BY <1>1, <1>2, Numbers DEF SInv, IInv, CallsSound, WorkFits
<1>14. Send("app")
  BY <1>1, <1>2, <1>11, <1>13 DEF Send
<1>15. StoreNext
  BY <1>13, <1>14 DEF StoreNext
<1>16. WorkFits(d, Sent(first), {})
  BY <1>9, <1>10, <1>12 DEF WorkFits
<1>17. Unsaved(d) = Unsaved(ui)
  BY <1>8, SameUnsaved DEF SameFields
<1>18. QED BY <1>2, <1>5, <1>8, <1>13, <1>15, <1>16, <1>17 DEF Steps, Keeps

LEMMA ArticleNumbers == 0 \in 0 .. MaxArticle /\ Picked \in 0 .. MaxArticle
<1>1. MaxArticle \in Nat /\ Saved \in 1 .. MaxArticle /\ Picked \in 1 .. Saved
  BY StoreAssumption, ScreenAssumption
<1>2. QED BY <1>1

LEMMA SaveTopicFits == ASSUME SInv, SaveTopic PROVE Steps /\ Keeps
<1> DEFINE op == SaveOp(ui.editor)
<1>1. /\ ui.editor.open /\ ui.open /\ ui.active /\ ~ui.leaving
      /\ ui.editor.name \in Names /\ Start(ui, "save", {op}, NoItem)
  BY DEF SaveTopic, ShowsEditor, Plain, Shown
<1>2. NoItem \in Told /\ "save" \in WorkKinds \ {"none"}
  BY Screen DEF Knows, WorkKinds
<1>3. op \in OpsOn(Told)
  <2>1. ui.editor.base \in Told /\ ui.editor.text \in Texts /\ IInv /\ 0 \in 0 .. MaxArticle
        /\ "create" \in Kinds /\ "update" \in Kinds
    <3>1. ui.editor \in Editors(Told)
      BY Screen DEF Screens
    <3>2. QED BY <3>1, ArticleNumbers DEF SInv, Editors, Kinds
  <2>2. QED BY <1>1, <2>1, CallTold DEF SaveOp
<1>4. ASSUME NEW d, NEW first, first \in {op}, SameFields(ui, d),
             d.work = Work("save", {op} \ {first}, NoItem)
      PROVE  Doing(d, first, {})
  <2>1. d.work.kind = "save" /\ d.work.todo = {} /\ d.work.failed = {}
    BY <1>4 DEF Work
  <2>2. QED BY <1>1, <1>4, <2>1 DEF Doing, SameFields
<1> HIDE DEF op
<1>5. QED BY <1>1, <1>2, <1>3, <1>4, StartFits

LEMMA ReadLatestFits == ASSUME SInv, ReadLatest PROVE Steps /\ Keeps
<1> DEFINE op == Op("get", ui.editor.base, 0, AnyName, AnyText)
<1>1. /\ ui.editor.open /\ ui.open /\ ui.active /\ ~ui.leaving /\ ui.editor.base # NoItem
      /\ Start(ui, "latest", {op}, NoItem)
  BY Screen DEF ReadLatest, ShowsEditor, Plain, Shown, Apart
<1>2. NoItem \in Told /\ "latest" \in WorkKinds \ {"none"}
  BY Screen DEF Knows, WorkKinds
<1>3. op \in OpsOn(Told) /\ op.kind = "get" /\ op.base = ui.editor.base
  <2>1. ui.editor.base \in Told /\ IInv /\ 0 \in 0 .. MaxArticle
        /\ "get" \in Kinds /\ AnyName \in Names /\ AnyText \in Texts
    <3>1. ui.editor \in Editors(Told)
      BY Screen DEF Screens
    <3>2. QED BY <3>1, ArticleNumbers, Defaults DEF SInv, Editors, Kinds
  <2>2. op \in OpsOn(Told)
    BY <2>1, CallTold
  <2>3. QED BY <2>2 DEF Op
<1> HIDE DEF op
<1>4. ASSUME NEW d, NEW first, first \in {op}, SameFields(ui, d),
             d.work = Work("latest", {op} \ {first}, NoItem)
      PROVE  Doing(d, first, {})
  <2>1. d.work.kind = "latest" /\ d.work.todo = {} /\ d.work.failed = {}
    BY <1>4 DEF Work
  <2>2. QED BY <1>1, <1>3, <1>4, <2>1 DEF Doing, SameFields
<1>5. QED BY <1>1, <1>2, <1>3, <1>4, StartFits

LEMMA ConfirmDeleteFits == ASSUME SInv, ConfirmDelete PROVE Steps /\ Keeps
<1> DEFINE op == Op("delete", ui.topic, 0, AnyName, AnyText)
<1>1. /\ ui.open /\ ui.active /\ ~ui.leaving /\ ~ui.picker /\ ui.topic.id # 0
      /\ Start(ui, "delete", {op}, NoItem)
  BY Screen DEF ConfirmDelete, ShowsDelete, Plain, Shown, Apart
<1>2. NoItem \in Told /\ "delete" \in WorkKinds \ {"none"}
  BY Screen DEF Knows, WorkKinds
<1>3. op \in OpsOn(Told)
  <2>1. ui.topic \in Told /\ IInv /\ 0 \in 0 .. MaxArticle
        /\ "delete" \in Kinds /\ AnyName \in Names /\ AnyText \in Texts
    BY Screen, StoreAssumption, Defaults DEF SInv, Screens, Kinds
  <2>2. QED BY <2>1, CallTold
<1> HIDE DEF op
<1>4. ASSUME NEW d, NEW first, first \in {op}, SameFields(ui, d),
             d.work = Work("delete", {op} \ {first}, NoItem)
      PROVE  Doing(d, first, {})
  <2>1. d.work.kind = "delete" /\ d.work.todo = {} /\ d.work.failed = {}
    BY <1>4 DEF Work
  <2>2. QED BY <1>1, <1>4, <2>1 DEF Doing, SameFields
<1>5. QED BY <1>1, <1>2, <1>3, <1>4, StartFits

LEMMA UnlinkArticleFits == ASSUME SInv, UnlinkArticle PROVE Steps /\ Keeps
<1>1. PICK item \in Range(ui.articles.items) :
         Start(ui, "unlink", {LinkOp("unlink", ui.topic.id, item.id)}, NoItem)
  BY DEF UnlinkArticle
<1>2. item.id \in 0 .. MaxArticle
  <2>1. ui.articles.items \in Seq(ArticleItems)
    BY Screen DEF Screens, Pages
  <2>2. item \in ArticleItems
    BY <2>1 DEF Range
  <2>3. QED BY <2>2, StoreAssumption DEF ArticleItems, ArticleIds, NoItem
<1> DEFINE op == LinkOp("unlink", ui.topic.id, item.id)
<1>3. /\ ui.open /\ ui.active /\ ~ui.leaving /\ ~ui.picker /\ ui.topic.id # 0
      /\ Start(ui, "unlink", {op}, NoItem)
  BY <1>1, Screen DEF UnlinkArticle, ShowsTopic, Plain, Shown
<1>4. NoItem \in Told /\ "unlink" \in WorkKinds \ {"none"}
  BY Screen DEF Knows, WorkKinds
<1>5. op \in OpsOn(Told)
  <2>1. ui.topic.id \in Ids(Told) /\ IInv
    BY Screen, IdsOfTold DEF Screens, SInv
  <2>2. QED BY <1>2, <2>1, LinkTold
<1> HIDE DEF op
<1>6. ASSUME NEW d, NEW first, first \in {op}, SameFields(ui, d),
             d.work = Work("unlink", {op} \ {first}, NoItem)
      PROVE  Doing(d, first, {})
  <2>1. d.work.kind = "unlink" /\ d.work.todo = {} /\ d.work.failed = {}
    BY <1>6 DEF Work
  <2>2. QED BY <1>3, <1>6, <2>1 DEF Doing, SameFields
<1>7. QED BY <1>3, <1>4, <1>5, <1>6, StartFits

LEMMA SameOps ==
    ASSUME NEW u, NEW d, SameFields(u, d)
    PROVE  AddOps(d) = AddOps(u) /\ MemberOps(d) = MemberOps(u)
  BY DEF SameFields, AddOps, MemberOps

LEMMA AddSelectedArticlesFits == ASSUME SInv, AddSelectedArticles PROVE Steps /\ Keeps
<1> DEFINE ops == AddOps(ui)
<1>1. /\ ui.open /\ ui.active /\ ~ui.leaving /\ ui.picker
      /\ Start(ui, "link", ops, ui.topic)
  BY Screen DEF AddSelectedArticles, ShowsTopic, Plain, Shown
<1>2. ui.topic \in Told /\ "link" \in WorkKinds \ {"none"}
  BY Screen DEF Screens, WorkKinds
<1>3. \A x \in ops : x \in OpsOn(Told) /\ x.kind = "link" /\ x.base.id = ui.topic.id
  <2>1. SUFFICES ASSUME NEW a \in ui.selected
                 PROVE  LET x == LinkOp("link", ui.topic.id, a)
                        IN  x \in OpsOn(Told) /\ x.kind = "link" /\ x.base.id = ui.topic.id
    BY DEF AddOps
  <2>2. ui.topic.id \in Ids(Told) /\ IInv /\ a \in 0 .. MaxArticle
    BY Screen, IdsOfTold DEF Screens, SInv
  <2>3. QED BY <2>2, LinkTold
<1>4. ASSUME NEW d, NEW first, first \in ops, SameFields(ui, d),
             d.work = Work("link", ops \ {first}, ui.topic)
      PROVE  Doing(d, first, {})
  <2>1. /\ d.work.kind = "link" /\ d.work.todo = ops \ {first} /\ d.work.failed = {}
        /\ d.work.item = ui.topic
    BY <1>4 DEF Work
  <2>2. AddOps(d) = ops /\ d.picker /\ d.topic = ui.topic
    BY <1>1, <1>4, SameOps DEF SameFields
  <2> HIDE DEF ops
  <2>3. \A x \in AddOps(d) : Handled(d, x, first, {})
    BY <2>1, <2>2 DEF Handled
  <2>4. QED BY <1>3, <1>4, <2>1, <2>2, <2>3 DEF Doing
<1>5. ops \in SUBSET OpsOn(Told)
  BY <1>3
<1> HIDE DEF ops
<1>6. QED BY <1>1, <1>2, <1>4, <1>5, StartFits

LEMMA SaveMembershipsFits == ASSUME SInv, SaveMemberships PROVE Steps /\ Keeps
<1> DEFINE ops == MemberOps(ui)
<1>1. /\ ui.open /\ ui.active /\ ~ui.leaving /\ Choosing(ui) /\ ui.member = "ready"
      /\ Start(ui, "members", ops, NoItem)
  BY DEF SaveMemberships, ShowsTopics, Plain, Shown, MembersReady
<1>2. NoItem \in Told /\ "members" \in WorkKinds \ {"none"}
  BY Screen DEF Knows, WorkKinds
<1>3. ops \in SUBSET OpsOn(Told)
  <2>1. ui.kept \in SUBSET Ids(Told) /\ ui.chosen \in SUBSET Ids(Told) /\ IInv
        /\ Picked \in 0 .. MaxArticle
    BY Screen, ArticleNumbers DEF Screens, SInv
  <2>2. \A t \in ui.chosen \ ui.kept : LinkOp("link", t, Picked) \in OpsOn(Told)
    BY <2>1, LinkTold
  <2>3. \A t \in ui.kept \ ui.chosen : LinkOp("unlink", t, Picked) \in OpsOn(Told)
    BY <2>1, LinkTold
  <2>4. QED BY <2>2, <2>3 DEF MemberOps
<1>4. ASSUME NEW d, NEW first, first \in ops, SameFields(ui, d),
             d.work = Work("members", ops \ {first}, NoItem)
      PROVE  Doing(d, first, {})
  <2>1. /\ d.work.kind = "members" /\ d.work.todo = ops \ {first} /\ d.work.failed = {}
    BY <1>4 DEF Work
  <2>2. MemberOps(d) = ops /\ Choosing(d) /\ d.member = "ready"
    BY <1>1, <1>4, SameOps DEF SameFields, Choosing
  <2> HIDE DEF ops
  <2>3. \A x \in MemberOps(d) : Handled(d, x, first, {})
    BY <2>1, <2>2 DEF Handled
  <2>4. QED BY <2>1, <2>2, <2>3 DEF Doing
<1> HIDE DEF ops
<1>5. QED BY <1>1, <1>2, <1>3, <1>4, StartFits

-----------------------------------------------------------------------------
(* The call of the work is answered, or given up.                          *)
LEMMA AnsweredFits ==
    ASSUME SInv, Busy(ui), NEW how, NEW item \in Told, NEW others, DOMAIN others = Sessions,
           how = "ok" => LET op == calls["app"].op
                         IN  /\ Piece(op) \in granted
                             /\ op.kind \in {"get", "link"} => item.id = op.base.id
                             /\ Choosing(ui) /\ ui.work.kind = "save" =>
                                  item.id \notin ui.kept,
           Answered(how, item, others), granted' = granted
    PROVE  /\ Fit(ui') /\ WorkFits(ui', calls'["app"], granted') /\ Keeps
           /\ \E c \in NewCalls : calls' = [others EXCEPT !["app"] = c]
<1> DEFINE op == calls["app"].op
           failed == IF how = "ok" THEN ui.work.failed ELSE ui.work.failed \cup {op}
           newest == IF how = "ok" THEN item ELSE ui.work.item
<1>1. /\ ui.work \in Works(Told) /\ calls["app"] \in Calls /\ "app" \in Sessions
  BY Screen, Numbers DEF SInv, IInv, CallsSound, Screens
<1>2. op \in Ops /\ failed \in SUBSET Ops /\ newest \in Told
  BY <1>1 DEF Works, Calls
<1>3. Answering(ui, op, granted, failed, newest)
  <2>1. Apart(ui) /\ AtWork(ui) /\ Doing(ui, op, granted)
    BY DEF SInv, WorkFits
  <2>2. \A x : Handled(ui, x, op, granted) =>
                 x \in ui.work.todo \/ x \in failed \/ Piece(x) \in granted
    BY DEF Handled
  <2>3. ui.work.kind = "link" => newest.id = ui.topic.id
    BY <2>1 DEF Doing
  <2>4. ui.work.kind = "latest" /\ failed = {} => newest.id = ui.editor.base.id
    BY <2>1 DEF Doing
  <2>5. ui.work.kind = "save" /\ failed = {} => Piece(op) \in granted
    OBVIOUS
  <2>6. Choosing(ui) /\ ui.work.kind = "save" /\ failed = {} => newest.id \notin ui.kept
    OBVIOUS
  <2> HIDE DEF op, failed, newest
  <2>7. QED BY <2>1, <2>2, <2>3, <2>4, <2>5, <2>6 DEF Answering
<1>4. \/ \E next \in ui.work.todo :
           /\ ui' = Onward(ui, next, failed, newest)
           /\ calls' = [others EXCEPT !["app"] = Sent(next)]
      \/ /\ ui.work.todo = {}
         /\ ui' = Rendered(Done(Concluded(ui, failed, how, newest), failed))
         /\ calls' = [others EXCEPT !["app"] = Idle]
  BY DEF Answered, Next1, Onward
<1> HIDE DEF op, failed, newest
<1>5. ui \in Screens(Told) /\ Fit(ui) /\ Knows(Told) /\ issued \in Nat /\ arrived \in Nat
      /\ ListsOf(ui, issued, Live, arrived, articles)
  BY Screen, Numbers DEF SInv, Fit
<1>6. CASE \E next \in ui.work.todo :
           /\ ui' = Onward(ui, next, failed, newest)
           /\ calls' = [others EXCEPT !["app"] = Sent(next)]
  <2>1. PICK next \in ui.work.todo :
           /\ ui' = Onward(ui, next, failed, newest)
           /\ calls' = [others EXCEPT !["app"] = Sent(next)]
    BY <1>6
  <2> DEFINE d == Onward(ui, next, failed, newest)
  <2>2. /\ d \in Screens(Told) /\ SameLists(ui, d)
        /\ WorkFits(d, Sent(next), granted)
        /\ Unsaved(d) = Unsaved(ui)
    BY <1>2, <1>3, <1>5, <2>1, WorkGoesOn
  <2>3. ui' = d
    BY <2>1
  <2> HIDE DEF d
  <2>4. Fit(d)
    BY <1>5, <2>2, SameFit
  <2>5. calls'["app"] = Sent(next)
    BY <1>1, <2>1
  <2>6. Sent(next) \in NewCalls
    BY <1>1 DEF Works, OpsOn, Told, NewCalls
  <2>7. QED BY <2>1, <2>2, <2>3, <2>4, <2>5, <2>6 DEF Keeps
<1>7. CASE /\ ui.work.todo = {}
           /\ ui' = Rendered(Done(Concluded(ui, failed, how, newest), failed))
           /\ calls' = [others EXCEPT !["app"] = Idle]
  <2> DEFINE d == Rendered(Done(Concluded(ui, failed, how, newest), failed))
  <2>1. Ending(ui, op, granted, failed, newest)
    BY <1>3, <1>7 DEF Ending
  <2>2. /\ d \in Screens(Told) /\ ListsOf(d, issued, Live, arrived, articles)
        /\ WorkFits(d, Idle, granted)
        /\ Unsaved(ui) \ Unsaved(d) \subseteq granted
    BY <1>2, <1>5, <2>1, WorkEnds
  <2>3. ui' = d
    BY <1>7
  <2> HIDE DEF d
  <2>4. calls'["app"] = Idle /\ Idle \in NewCalls
    BY <1>1, <1>7 DEF NewCalls
  <2>5. QED BY <1>7, <2>2, <2>3, <2>4 DEF Keeps, Fit
<1>8. QED BY <1>4, <1>6, <1>7

LEMMA HearFits == ASSUME SInv, Hear PROVE Steps /\ Keeps
<1> DEFINE call == calls["app"]
<1>1. /\ call.at = "done" /\ Busy(ui) /\ Answered(call.how, call.item, calls)
      /\ UNCHANGED <<tables, lock, granted, left>>
  BY DEF Hear
<1>2. /\ "app" \in Sessions /\ DOMAIN calls = Sessions /\ call.item \in Told
      /\ call.how = "ok" /\ call.op.kind \in {"get", "link"} => call.item.id = call.op.base.id
  BY <1>1, Numbers DEF SInv, IInv, CallsSound, AnswersSound, Tells
<1>3. call.how = "ok" => /\ Piece(call.op) \in granted
                         /\ Choosing(ui) /\ ui.work.kind = "save" =>
                              call.item.id \notin ui.kept
  BY <1>1 DEF SInv, WorkFits
<1>4. /\ Fit(ui') /\ WorkFits(ui', calls'["app"], granted') /\ Keeps
      /\ \E c \in NewCalls : calls' = [calls EXCEPT !["app"] = c]
  BY <1>1, <1>2, <1>3, AnsweredFits
<1>5. StoreNext
  BY <1>1, <1>2, <1>4 DEF StoreNext, Send
<1>6. QED BY <1>1, <1>4, <1>5, Screen DEF Steps

LEMMA LoseFits == ASSUME SInv, Lose PROVE Steps /\ Keeps
<1>1. /\ calls["app"].at # "locked" /\ Busy(ui) /\ Answered("lost", NoItem, calls)
      /\ UNCHANGED <<tables, lock, granted>> /\ left' \in Budgets
  BY SpendFits DEF Lose, SInv
<1>2. /\ "app" \in Sessions /\ DOMAIN calls = Sessions /\ NoItem \in Told
  BY Numbers, Screen DEF SInv, IInv, CallsSound, Knows
<1>3. /\ Fit(ui') /\ WorkFits(ui', calls'["app"], granted') /\ Keeps
      /\ \E c \in NewCalls : calls' = [calls EXCEPT !["app"] = c]
  BY <1>1, <1>2, AnsweredFits
<1>4. StoreNext
  BY <1>1, <1>2, <1>3 DEF StoreNext, Send
<1>5. QED BY <1>1, <1>3, <1>4 DEF Steps

LEMMA LoseLateFits == ASSUME SInv, LoseLate PROVE Steps /\ Keeps
<1> DEFINE others == [calls EXCEPT !["late"] = calls["app"]]
<1>1. /\ Busy(ui) /\ Answered("lost", NoItem, others)
      /\ UNCHANGED <<tables, granted>> /\ left' \in Budgets
  BY SpendFits DEF LoseLate, SInv
<1>2. /\ "app" \in Sessions /\ "late" \in Sessions /\ DOMAIN others = Sessions
      /\ NoItem \in Told
  BY Numbers, Screen DEF SInv, IInv, CallsSound, Knows
<1>3. /\ Fit(ui') /\ WorkFits(ui', calls'["app"], granted') /\ Keeps
      /\ \E c \in NewCalls : calls' = [others EXCEPT !["app"] = c]
  <2> HIDE DEF others
  <2>1. QED BY <1>1, <1>2, AnsweredFits
<1>4. GiveUp("app", "late")
  <2>1. PICK c \in NewCalls : calls' = [others EXCEPT !["app"] = c]
    BY <1>3
  <2>2. calls' = [calls EXCEPT !["late"] = calls["app"], !["app"] = c]
    BY <2>1
  <2>3. /\ calls["app"].at \in {"sent", "locked"} /\ calls["late"].at \in {"idle", "done"}
        /\ lock' = IF lock = "app" THEN "late" ELSE lock
        /\ UNCHANGED tables
    BY DEF LoseLate
  <2>4. \E call \in NewCalls : calls' = [calls EXCEPT !["late"] = calls["app"], !["app"] = call]
    BY <2>2
  <2>5. QED BY <2>3, <2>4 DEF GiveUp
<1>5. StoreNext
  BY <1>2, <1>4 DEF StoreNext
<1>6. QED BY <1>1, <1>3, <1>5 DEF Steps

-----------------------------------------------------------------------------
(* At first.                                                               *)
LEMMA Spans ==
    ASSUME NEW n \in Nat, NEW m \in Nat, n \in 1 .. m
    PROVE  /\ 1 .. n \subseteq 1 .. m /\ n \in 0 .. m /\ 1 .. n \subseteq 1 .. n
           /\ n \in 1 .. n
           /\ \A t \in 1 .. m : (t <= n) <=> t \in 1 .. n
  BY SMT

LEMMA OneIsNotZero == 1 # 0
  BY SMT

LEMMA RowsAtFirst ==
    ASSUME NEW S, S \subseteq TopicIds, NEW f \in [S -> Names],
           topics = [t \in TopicIds |-> IF t \in S
                                       THEN [rev |-> 1, name |-> f[t], text |-> ""]
                                       ELSE NoTopic]
    PROVE  /\ topics \in [TopicIds -> Topics] /\ Live = S
           /\ \A t \in S : topics[t].name = f[t]
<1>1. ASSUME NEW t \in S
      PROVE  topics[t] \in Topics /\ topics[t].rev = 1 /\ topics[t].name = f[t]
  <2>1. topics[t] = [rev |-> 1, name |-> f[t], text |-> ""]
    BY Zenon
  <2>2. f[t] \in Names /\ "" \in Texts /\ 1 \in Nat
    BY EmptyTyped
  <2>3. QED BY <2>1, <2>2 DEF Topics
<1>2. ASSUME NEW t \in TopicIds \ S PROVE topics[t] \in Topics /\ topics[t].rev = 0
  <2>1. topics[t] = NoTopic
    BY Zenon
  <2>2. NoTopic.rev = 0
    BY DEF NoTopic
  <2>3. QED BY <2>1, <2>2, Defaults
<1>3. topics = [t \in TopicIds |-> topics[t]]
  BY Zenon
<1>4. \A t \in TopicIds : topics[t] \in Topics /\ (topics[t].rev # 0 <=> t \in S)
  <2>1. 1 # 0
    BY OneIsNotZero
  <2>2. QED BY <1>1, <1>2, <2>1, Zenon
<1>5. topics \in [TopicIds -> Topics]
  BY <1>3, <1>4, Zenon
<1>6. Live = S
  BY <1>4, Zenon DEF Live
<1>7. QED BY <1>1, <1>5, <1>6

LEMMA TopicsAtFirst ==
    ASSUME Init
    PROVE  /\ topics \in [TopicIds -> Topics] /\ Live = 1 .. issued
           /\ issued \in Nat /\ MaxTopic \in Nat /\ issued \in 1 .. MaxTopic
           /\ \A t, u \in Live : Key[topics[t].name] = Key[topics[u].name] => t = u
<1> DEFINE n == Len(Initially)
           S == 1 .. n
           f == [t \in S |-> Initially[t]]
<1>1. /\ Initially \in Seq(Names) /\ n \in 1 .. MaxTopic
      /\ \A i, j \in S : Key[Initially[i]] = Key[Initially[j]] => i = j
  BY ScreenAssumption
<1>2. /\ topics = [t \in TopicIds |-> IF t <= n
                                     THEN [rev |-> 1, name |-> Initially[t], text |-> ""]
                                     ELSE NoTopic]
      /\ issued = n
  BY DEF Init
<1>3. n \in Nat /\ f \in [S -> Names]
  BY <1>1
<1>4. MaxTopic \in Nat
  BY StoreAssumption
<1> HIDE DEF n
<1>5. S \subseteq TopicIds /\ \A t \in TopicIds : (t <= n) <=> t \in S
  BY <1>1, <1>3, <1>4, Spans DEF TopicIds
<1> HIDE DEF S
<1>6. \A t \in S : f[t] = Initially[t]
  OBVIOUS
<1> HIDE DEF f
<1>7. topics = [t \in TopicIds |-> IF t \in S
                                  THEN [rev |-> 1, name |-> f[t], text |-> ""]
                                  ELSE NoTopic]
  BY <1>2, <1>5, <1>6, Zenon
<1>8. /\ topics \in [TopicIds -> Topics] /\ Live = S
      /\ \A t \in S : topics[t].name = f[t]
  BY <1>3, <1>5, <1>7, RowsAtFirst
<1>9. \A t, u \in Live : Key[topics[t].name] = Key[topics[u].name] => t = u
  <2> SUFFICES ASSUME NEW t \in S, NEW u \in S,
                      Key[topics[t].name] = Key[topics[u].name]
               PROVE  t = u
    BY <1>8
  <2>1. topics[t].name = Initially[t] /\ topics[u].name = Initially[u]
    BY <1>6, <1>8
  <2>2. Key[Initially[t]] = Key[Initially[u]]
    BY <2>1
  <2>3. QED BY <1>1, <2>2
<1>10. QED BY <1>1, <1>2, <1>3, <1>4, <1>8, <1>9 DEF S

LEMMA TablesAtFirst ==
    ASSUME Init
    PROVE  TablesSound /\ lock = NoOne
<1>1. /\ links = {<<issued, Picked>>} /\ lock = NoOne
      /\ articles = 1 .. Saved /\ arrived = Saved /\ today = {Saved}
  BY DEF Init
<1>2. Saved \in 1 .. MaxArticle /\ Picked \in 1 .. Saved
  BY ScreenAssumption
<1>3. Saved \in Nat /\ MaxArticle \in Nat /\ DailyLimit \in Nat
  BY <1>2, StoreAssumption, SMT
<1>4. /\ articles \subseteq 1 .. arrived /\ arrived \in 0 .. MaxArticle
      /\ today \subseteq articles
  BY <1>1, <1>2, <1>3, Spans
<1>5. issued \in 0 .. MaxTopic /\ Live \subseteq 1 .. issued /\ issued \in Live
  BY TopicsAtFirst, Spans
<1>6. links \subseteq Live \X articles
  BY <1>1, <1>2, <1>5
<1>7. DailyLimit > 0 => Cardinality(today) <= DailyLimit
  <2>1. Cardinality(today) = 1
    BY <1>1, FS_Singleton
  <2>2. QED BY <1>3, <2>1, SMT
<1>8. QED BY <1>1, <1>4, <1>5, <1>6, <1>7, TopicsAtFirst DEF TablesSound

(* The store the screen finds is one of the stores of StoreSpec.           *)
LEMMA StoreAtFirst == ASSUME Init PROVE StoreInit
<1>1. TablesSound /\ lock = NoOne
  BY TablesAtFirst
<1> DEFINE save == Op("save", NoItem, 0, AnyName, AnyText)
<1>2. save \in Ops /\ save.base = NoItem
  <2>1. 0 \in 0 .. MaxArticle
    BY StoreAssumption
  <2>2. QED BY <2>1, Defaults, Zenon DEF Op, Ops, Kinds
<1>3. Sent(save) \in NewCalls /\ Idle \in NewCalls
  BY <1>1, <1>2, NoItemGenuine DEF NewCalls
<1>4. Sent(save) \in Calls /\ Idle \in Calls
  BY <1>2, SentTyped, Defaults
<1>5. calls = [s \in Sessions |-> IF s = "late" /\ left.saving THEN Sent(save) ELSE Idle]
  BY DEF Init
<1> HIDE DEF save
<1>6. calls \in [Sessions -> Calls] /\ \A s \in Sessions : calls[s] \in NewCalls
  BY <1>3, <1>4, <1>5
<1>7. StoreIsSound
  BY <1>1, <1>6 DEF StoreIsSound, TablesSound
<1>8. QED BY <1>1, <1>6, <1>7 DEF StoreInit

LEMMA ListAtFirst ==
    ASSUME NEW T, NEW n, NEW ids
    PROVE  LET p == Follow(NoPage, Scope("topics", 0, ""))
           IN  p \in Pages(T, {"topics"}) /\ ListSound(p, "topics", n, ids)
<1> DEFINE scope == Scope("topics", 0, "")
           p == Follow(NoPage, scope)
           r == Ask(scope, 0)
<1>1. scope \in Scopes({"topics"}) /\ scope # NoScope
  <2>1. 0 \in 0 .. MaxTopic
    BY StoreAssumption, SMT
  <2>2. QED BY <2>1, EmptyTyped DEF Scope, Scopes, NoScope
<1>2. p = Load(NoPage, scope, 0)
  BY <1>1 DEF Follow, NoPage
<1>3. Superseded(NoPage) = {}
  BY DEF Superseded, Running, NoPage
<1>4. p = [scope |-> scope, items |-> <<>>, cursor |-> 0, failed |-> FALSE, reqs |-> {r}]
  BY <1>2, <1>3 DEF Load
<1>5. /\ r \in PageRequests(T, {"topics"}) /\ r.on = "sent" /\ r.scope = scope
      /\ r.cursor = 0
  <2>1. r = [fresh |-> TRUE, scope |-> scope, cursor |-> 0, on |-> "sent",
             items |-> <<>>, next |-> 0]
    BY DEF Ask
  <2>2. <<>> \in Seq(T) /\ 0 \in Nat
    OBVIOUS
  <2> HIDE DEF scope, r
  <2>3. QED BY <1>1, <2>1, <2>2 DEF PageRequests
<1> HIDE DEF scope, p, r
<1>6. /\ p \in Pages(T, {"topics"}) /\ p.items = <<>> /\ p.cursor = 0 /\ p.scope = scope
      /\ p.reqs = {r}
  BY <1>1, <1>4, <1>5 DEF Pages
<1>7. PageSound(p, n)
  BY <1>5, <1>6 DEF PageSound, Falling, LastIs, AnswerSoundOf
<1>8. Filled(p, ids)
  BY <1>5, <1>6 DEF Filled
<1>9. QED BY <1>6, <1>7, <1>8 DEF ListSound, p, scope

LEMMA EmptyListSound == \A n, ids : ListSound(NoPage, "articles", n, ids)
  BY DEF ListSound, PageSound, Falling, LastIs, AnswerSoundOf, Filled, NoPage

LEMMA ScreenAtFirst ==
    ASSUME NEW T, Knows(T), NEW mode \in {"browse", "choose"}, NEW call, call.at = "idle",
           NEW n, NEW live, NEW m, NEW rows
    PROVE  /\ Mounted(mode) \in Screens(T) /\ ListsOf(Mounted(mode), n, live, m, rows)
           /\ WorkFits(Mounted(mode), call, {})
<1> DEFINE u == Mounted(mode)
           p == Follow(NoPage, Scope("topics", 0, ""))
<1>1. p \in Pages(T, {"topics"}) /\ ListSound(p, "topics", n, live)
  BY ListAtFirst
<1> DEFINE load == IF mode = "choose" THEN [NoLoad EXCEPT !.on = "sent"] ELSE NoLoad
           member == IF mode = "choose" THEN "loading" ELSE "ready"
<1>2. load \in MemberLoads(T) /\ member \in {"loading", "ready", "failed"}
  BY NothingKnown
<1>3. load.on = (IF mode = "choose" THEN "sent" ELSE "no")
  BY DEF NoLoad
<1>4. u = [mode |-> mode, open |-> TRUE, active |-> TRUE,
           topic |-> NoItem, picker |-> FALSE, selected |-> {},
           editor |-> NoEditor, deleting |-> FALSE, leaving |-> FALSE,
           conflict |-> FALSE, work |-> NoWork,
           kept |-> {}, chosen |-> {}, member |-> member, load |-> load,
           refreshes |-> {},
           topicTyped |-> "", topicQuery |-> "",
           articleTyped |-> "", articleQuery |-> "",
           topics |-> p, articles |-> NoPage]
  BY DEF Mounted
<1> HIDE DEF u, p, load
<1>5. u \in Screens(T)
  BY <1>1, <1>2, <1>4, NothingKnown, EmptyTyped DEF Screens
<1>6. ListsOf(u, n, live, m, rows)
  BY <1>1, <1>4, EmptyListSound DEF ListsOf
<1>7. Apart(u)
  BY <1>3, <1>4, Zenon DEF Apart, Choosing, NoItem, NoEditor
<1>8. ~Busy(u) /\ u.work.kind = "none"
  BY <1>4 DEF Busy, NoWork
<1>9. WorkFits(u, call, {})
  BY <1>7, <1>8 DEF WorkFits, AtWork, Doing
<1>10. QED BY <1>5, <1>6, <1>9 DEF u

LEMMA SoundAtFirst == ASSUME Init PROVE SInv
<1>1. StoreInit /\ IInv
  BY StoreAtFirst, InitSound
<1>2. AnswersSound
  BY <1>1, NewCallTells DEF StoreInit, AnswersSound
<1>3. left \in Budgets /\ left.mode \in {"browse", "choose"}
  BY BoundsAssumption DEF Init, Budgets
<1>4. ui = Mounted(left.mode) /\ granted = {} /\ calls["app"] = Idle
  BY Numbers, <1>1 DEF Init
<1>5. calls["app"].at = "idle"
  BY <1>4 DEF Idle
<1>6. Fit(ui) /\ WorkFits(ui, calls["app"], granted)
  BY <1>1, <1>3, <1>4, <1>5, Numbers, ScreenAtFirst DEF Fit
<1>7. QED BY <1>1, <1>2, <1>3, <1>6 DEF SInv

-----------------------------------------------------------------------------
(* The steps.                                                              *)

(* The steps in which the user says what is no longer wanted.              *)
Wanted == TypeInEditor \/ ToggleTopic \/ ToggleArticle \/ Discard \/ HearMembers

LEMMA UserFits == ASSUME SInv, User PROVE Steps /\ (Wanted \/ Keeps)
  BY PressBackFits, KeepWritingFits, DiscardFits, NewTopicFits, EditTopicFits,
     TypeInEditorFits, SaveTopicFits, ReadLatestFits, AskDeleteFits, ConfirmDeleteFits,
     OpenTopicFits, ToggleTopicFits, SaveMembershipsFits, RetryMembershipsFits,
     OpenPickerFits, ToggleArticleFits, AddSelectedArticlesFits, UnlinkArticleFits,
     TypeSearchFits, AskListFits, ReadArticleFits, ReturnFits
  DEF User, Wanted

LEMMA RequestsFit == ASSUME SInv, Requests PROVE Steps /\ (Wanted \/ Keeps)
  BY ServeListFits, HearListFits, LoseListFits, ServeMembersFits, HearMembersFits,
     LoseMembersFits, ServeRefreshFits, HearRefreshFits, LoseRefreshFits, DebouncedFits,
     HearFits, LoseFits, LoseLateFits
  DEF Requests, Wanted

LEMMA ApiFits == ASSUME SInv, Api PROVE Steps /\ Keeps
  BY ServeFits, ServerFailsFits, MidnightFits, OtherDeviceFits DEF Api

LEMMA StepFits == ASSUME SInv, [Next]_vars PROVE Steps /\ (Wanted \/ Keeps \/ UNCHANGED vars)
<1>1. CASE Next
  BY <1>1, UserFits, RequestsFit, ApiFits DEF Next
<1>2. CASE UNCHANGED vars
  <2>1. UNCHANGED <<store, ui, granted, left>>
    BY <1>2 DEF vars
  <2>2. QED BY <1>2, <2>1, TurnsTo DEF SInv
<1>3. QED BY <1>1, <1>2

-----------------------------------------------------------------------------
(* SInv is an invariant of the screen over its store.                      *)
THEOREM ScreenInductive == Spec => []SInv
<1>1. Init => SInv
  BY SoundAtFirst
<1>2. SInv /\ [Next]_vars => SInv'
  BY StepFits, StepsSound
<1>3. QED BY <1>1, <1>2, PTL DEF Spec

(* The screen, its calls given up and the other device are clients of the  *)
(* store as TopicStore describes them: every step of the app, whatever     *)
(* calls it makes, loses or repeats, is a step of the store or none.       *)
THEOREM ScreenIsAClient == Spec => StoreSpec
<1>1. Init => StoreInit
  BY StoreAtFirst
<1>2. SInv /\ [Next]_vars => [StoreNext]_store
  BY StepFits DEF Steps
<1>3. QED BY <1>1, <1>2, ScreenInductive, PTL DEF Spec, StoreSpec

(* With the screen and another device at work, two topics never share a    *)
(* key, memberships have both their rows, and the daily limit holds.       *)
THEOREM ScreenKeepsStoreSound == Spec => []StoreIsSound
  BY ScreenIsAClient, StoreCorrect

(* The screen never overwrites a name or a description that its editor did *)
(* not show, and no other device overwrites one it has not read: the       *)
(* revision an update carries is the one of what was seen.                 *)
THEOREM ScreenReplacesWhatWasSeen == Spec => EditsReplaceWhatWasSeen
  BY ScreenIsAClient, EditCorrect

LEMMA WholeList ==
    ASSUME NEW p, NEW kind, NEW n, NEW ids, ListSound(p, kind, n, ids),
           p.scope.of = kind, p.scope.query = ""
    PROVE  Whole(p, ids)
  BY DEF ListSound, PageSound, Falling, Filled, HasId, Shows, Whole

(* No gap in a list: whatever order the answers to reloads, to further     *)
(* pages and to former searches come in, and whatever other devices create *)
(* or delete meanwhile, the rows of a list of useKnowledgePage are all     *)
(* that exist from its first row to where the next page begins, once each, *)
(* newest first.                                                           *)
THEOREM ScreenListsAreWhole == Spec => []ListsAreWhole
<1>1. SInv => ListsAreWhole
  <2> SUFFICES ASSUME SInv PROVE ListsAreWhole
    OBVIOUS
  <2>1. /\ ListSound(ui.topics, "topics", issued, Live)
        /\ ListSound(ui.articles, "articles", arrived, articles)
    BY DEF SInv, Fit, ListsOf
  <2>2. ui.topics.scope.of = "topics"
    BY DEF SInv, Fit, Screens, Pages, Scopes
  <2>3. QED BY <2>1, <2>2, WholeList DEF ListsAreWhole
<1>2. QED BY <1>1, ScreenInductive, PTL

(* No work of the user is lost: what is typed into the editor, picked for  *)
(* a topic or chosen for an article leaves the screen of KnowledgeScreen   *)
(* only in a step of the user who takes it back or was asked and leaves,   *)
(* or when the API has done it, however calls fail, time out or are        *)
(* answered late.                                                          *)
THEOREM ScreenKeepsWork == Spec => WorkIsKept
<1>1. SInv /\ [Next]_vars => [Wanted \/ Keeps]_vars
  BY StepFits
<1>2. Spec => [][Wanted \/ Keeps]_vars
  BY <1>1, ScreenInductive, PTL DEF Spec
<1>3. QED BY <1>2 DEF WorkIsKept, Wanted, Keeps
=============================================================================
