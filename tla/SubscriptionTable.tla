------------------------- MODULE SubscriptionTable -------------------------
(***************************************************************************)
(* The subscriptions table of Postgres and the statements the store runs   *)
(* on it.  A table is a set of rows; every statement of                    *)
(* PostgresSubscriptionStore is one autocommitted SQL statement, so each   *)
(* operator here is one atomic step of the modules that use it.            *)
(*                                                                         *)
(* Every attempt to subscribe draws two fresh 256-bit tokens, and the row  *)
(* of an attempt keeps them for good.  A row's id therefore stands for its *)
(* confirm_token and its unsubscribe_token as well: "where confirm_token = *)
(* $1" selects the row of one id.  The timestamps are left out.            *)
(***************************************************************************)
EXTENDS Integers

CONSTANTS
    Emails,     \* normalised addresses
    Repos,      \* normalised "owner/name" pairs
    MaxTag      \* bound: release tags a repository may publish

ASSUME MaxTagAssumption == MaxTag \in Nat

(* A repository's tags are numbered in the order GitHub released them; 0   *)
(* is the empty string, the last_seen_tag of a repository with no release. *)
NoTag == 0
Tags == 0 .. MaxTag

Row == [id : Nat, email : Emails, repo : Repos,
        confirmed : BOOLEAN, lastSeenTag : Tags]

Pair(r) == <<r.email, r.repo>>

(* Mutant of Conflicts: only a confirmed row takes its pair.               *)
ConflictsIfConfirmed(table, email, repo) ==
    \E r \in table : r.email = email /\ r.repo = repo /\ r.confirmed

(* The unique constraint on (email, repo_owner, repo_name).                *)
Conflicts(table, email, repo) ==
    \E r \in table : r.email = email /\ r.repo = repo

InsertRow(table, id, email, repo, tag) ==
    table \cup {[id |-> id, email |-> email, repo |-> repo,
                 confirmed |-> FALSE, lastSeenTag |-> tag]}

HasRow(table, id) == \E r \in table : r.id = id

DeleteRow(table, id) == {r \in table : r.id # id}

(* Mutant of ConfirmRow: one link confirms every row of the address.       *)
ConfirmAddress(table, id) ==
    {[r EXCEPT !.confirmed = @ \/ \E s \in table : s.id = id /\ s.email = r.email] :
        r \in table}

ConfirmRow(table, id) ==
    {IF r.id = id THEN [r EXCEPT !.confirmed = TRUE] ELSE r : r \in table}

(* update ... set last_seen_tag: a row that is gone is no error.           *)
SetTag(table, id, tag) ==
    {IF r.id = id THEN [r EXCEPT !.lastSeenTag = tag] ELSE r : r \in table}

(* Mutant of ConfirmedRows: the query has lost its where clause.           *)
AllRows(table) == table

(* What ListConfirmedForScan returns; the order of the rows is dropped.    *)
ConfirmedRows(table) == {r \in table : r.confirmed}

=============================================================================
