----------------------------- MODULE ArticleRows -----------------------------
(***************************************************************************)
(* What one statement of batchUpsertArticles does to the row of an article *)
(* (article-data-service.ts): the last sighting of the article and the     *)
(* updated_at it gets.  A time is a natural number, a microsecond a tick,  *)
(* and Never a null timestamp.                                             *)
(***************************************************************************)
EXTENDS Naturals

Never == 0
NoRow == [body |-> 0, seen |-> Never, updated |-> Never]

Later(s, t) == IF s > t THEN s ELSE t

\* The CASE over timestampAdvance and fieldChange; a microsecond is a tick.
UpdatedAt(row, item, at) ==
    IF item.date # Never /\ (row.updated = Never \/ item.date > row.updated)
    THEN item.date
    ELSE IF item.body # row.body
    THEN IF row.updated = Never THEN at ELSE Later(at, row.updated + 1)
    ELSE row.updated

\* INSERT ... ON CONFLICT DO UPDATE ... WHERE of batchUpsertArticles.
Upserted(row, item, at) ==
    IF row = NoRow
    THEN [body |-> item.body, seen |-> at, updated |-> item.date]
    ELSE IF at < row.seen
    THEN row
    ELSE [body |-> item.body, seen |-> at, updated |-> UpdatedAt(row, item, at)]
==============================================================================
