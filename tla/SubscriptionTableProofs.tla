---------------------- MODULE SubscriptionTableProofs ----------------------
(***************************************************************************)
(* Facts about the statements of SubscriptionTable, for any table: what    *)
(* they do to its ids and to its (email, repository) pairs.                *)
(***************************************************************************)
EXTENDS SubscriptionTable, TLAPS

(* The two unique constraints of the table: the primary key, and the       *)
(* (email, repo_owner, repo_name) triple.                                  *)
UniqueIds(table) == \A r, s \in table : r.id = s.id => r = s
UniquePairs(table) == \A r, s \in table : Pair(r) = Pair(s) => r = s

(* An insert that meets no conflict keeps both constraints, provided the   *)
(* serial gave it an id no row has.                                        *)
LEMMA InsertRowKeeps ==
    ASSUME NEW table, table \subseteq Row,
           NEW id \in Nat, ~ HasRow(table, id),
           NEW email \in Emails, NEW repo \in Repos, NEW tag \in Tags,
           ~ Conflicts(table, email, repo)
    PROVE  LET new == InsertRow(table, id, email, repo, tag)
           IN  /\ new \subseteq Row
               /\ UniqueIds(table) => UniqueIds(new)
               /\ UniquePairs(table) => UniquePairs(new)
               /\ \A i : HasRow(new, i) <=> HasRow(table, i) \/ i = id
  <1> DEFINE new == InsertRow(table, id, email, repo, tag)
             row == [id |-> id, email |-> email, repo |-> repo,
                     confirmed |-> FALSE, lastSeenTag |-> tag]
  <1>1. /\ row \in Row
        /\ row.id = id /\ row.email = email /\ row.repo = repo
    BY DEF Row
  <1>2. new = table \cup {row}
    BY DEF InsertRow
  <1> HIDE DEF new, row
  <1>3. new \subseteq Row
    BY <1>1, <1>2
  <1>4. UniqueIds(table) => UniqueIds(new)
    BY <1>1, <1>2 DEF UniqueIds, HasRow
  <1>5. UniquePairs(table) => UniquePairs(new)
    <2>1. \A r \in table : Pair(r) # Pair(row)
      BY <1>1 DEF Conflicts, Pair
    <2> QED
      BY <1>2, <2>1 DEF UniquePairs
  <1>6. \A i : HasRow(new, i) <=> HasRow(table, i) \/ i = id
    BY <1>1, <1>2 DEF HasRow
  <1> QED
    BY <1>3, <1>4, <1>5, <1>6 DEF new

(* A delete removes the rows of one id and nothing else.                   *)
LEMMA DeleteRowKeeps ==
    ASSUME NEW table, table \subseteq Row, NEW id
    PROVE  LET new == DeleteRow(table, id)
           IN  /\ new \subseteq table
               /\ UniqueIds(table) => UniqueIds(new)
               /\ UniquePairs(table) => UniquePairs(new)
               /\ \A i : HasRow(new, i) <=> HasRow(table, i) /\ i # id
  BY DEF DeleteRow, HasRow, UniqueIds, UniquePairs

(* Confirming changes no id, no pair and no tag.                           *)
LEMMA ConfirmRowKeeps ==
    ASSUME NEW table, table \subseteq Row, NEW id
    PROVE  LET new == ConfirmRow(table, id)
           IN  /\ new \subseteq Row
               /\ UniqueIds(table) => UniqueIds(new)
               /\ UniquePairs(table) => UniquePairs(new)
               /\ \A i : HasRow(new, i) <=> HasRow(table, i)
               /\ \A q \in new : \E r \in table :
                    /\ q.id = r.id
                    /\ Pair(q) = Pair(r)
                    /\ q.lastSeenTag = r.lastSeenTag
                    /\ q.confirmed <=> r.confirmed \/ r.id = id
  <1> DEFINE new == ConfirmRow(table, id)
             image(r) == IF r.id = id THEN [r EXCEPT !.confirmed = TRUE] ELSE r
  <1>1. ASSUME NEW r \in table
        PROVE  /\ image(r) \in Row
               /\ image(r).id = r.id
               /\ image(r).email = r.email /\ image(r).repo = r.repo
               /\ image(r).lastSeenTag = r.lastSeenTag
               /\ image(r).confirmed <=> r.confirmed \/ r.id = id
    BY <1>1 DEF Row
  <1>2. new = {image(r) : r \in table}
    BY DEF ConfirmRow
  <1> HIDE DEF new, image
  <1>3. new \subseteq Row
    BY <1>1, <1>2
  <1>4. UniqueIds(table) => UniqueIds(new)
    BY <1>1, <1>2 DEF UniqueIds
  <1>5. UniquePairs(table) => UniquePairs(new)
    BY <1>1, <1>2 DEF UniquePairs, Pair
  <1>6. \A i : HasRow(new, i) <=> HasRow(table, i)
    BY <1>1, <1>2 DEF HasRow
  <1>7. \A q \in new : \E r \in table :
            /\ q.id = r.id
            /\ Pair(q) = Pair(r)
            /\ q.lastSeenTag = r.lastSeenTag
            /\ q.confirmed <=> r.confirmed \/ r.id = id
    BY <1>1, <1>2 DEF Pair
  <1> QED
    BY <1>3, <1>4, <1>5, <1>6, <1>7 DEF new

(* Recording a tag changes no id, no pair and no confirmation; the row of  *)
(* the id has the new tag, every other row has its old one.                *)
LEMMA SetTagKeeps ==
    ASSUME NEW table, table \subseteq Row, NEW id, NEW tag \in Tags
    PROVE  LET new == SetTag(table, id, tag)
           IN  /\ new \subseteq Row
               /\ UniqueIds(table) => UniqueIds(new)
               /\ UniquePairs(table) => UniquePairs(new)
               /\ \A i : HasRow(new, i) <=> HasRow(table, i)
               /\ \A q \in new : \E r \in table :
                    /\ q.id = r.id
                    /\ Pair(q) = Pair(r)
                    /\ q.confirmed = r.confirmed
                    /\ q.lastSeenTag = IF r.id = id THEN tag ELSE r.lastSeenTag
  <1> DEFINE new == SetTag(table, id, tag)
             image(r) == IF r.id = id THEN [r EXCEPT !.lastSeenTag = tag] ELSE r
  <1>1. ASSUME NEW r \in table
        PROVE  /\ image(r) \in Row
               /\ image(r).id = r.id
               /\ image(r).email = r.email /\ image(r).repo = r.repo
               /\ image(r).confirmed = r.confirmed
               /\ image(r).lastSeenTag = IF r.id = id THEN tag ELSE r.lastSeenTag
    BY <1>1 DEF Row
  <1>2. new = {image(r) : r \in table}
    BY DEF SetTag
  <1> HIDE DEF new, image
  <1>3. new \subseteq Row
    BY <1>1, <1>2
  <1>4. UniqueIds(table) => UniqueIds(new)
    BY <1>1, <1>2 DEF UniqueIds
  <1>5. UniquePairs(table) => UniquePairs(new)
    BY <1>1, <1>2 DEF UniquePairs, Pair
  <1>6. \A i : HasRow(new, i) <=> HasRow(table, i)
    BY <1>1, <1>2 DEF HasRow
  <1>7. \A q \in new : \E r \in table :
            /\ q.id = r.id
            /\ Pair(q) = Pair(r)
            /\ q.confirmed = r.confirmed
            /\ q.lastSeenTag = IF r.id = id THEN tag ELSE r.lastSeenTag
    BY <1>1, <1>2 DEF Pair
  <1> QED
    BY <1>3, <1>4, <1>5, <1>6, <1>7 DEF new

=============================================================================
