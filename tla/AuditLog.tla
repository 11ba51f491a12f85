------------------------------ MODULE AuditLog ------------------------------
(***************************************************************************)
(* Reading the token events of an org page by page (routers/admin.py,      *)
(* admin_audit; store/pg_store.py, query_audit) while events are written   *)
(* (write_token_event).                                                    *)
(*                                                                         *)
(* An event's id comes from the table's sequence when its INSERT runs; the *)
(* row is there for others once the INSERT is committed.  Events of several*)
(* requests and pods are written at the same time, so ids do not become    *)
(* visible in their order.  Ids of other orgs, and of INSERTs that fail,   *)
(* never become visible to this one.                                       *)
(*                                                                         *)
(* The client asks from cursor 0, passes on the next_cursor of each answer *)
(* until it is null, and may later go on from the last id it has.          *)
(*                                                                         *)
(* Init, Next, Spec and the like are prefixed, so that a module can extend *)
(* this one and those of the other stores.                                 *)
(***************************************************************************)
EXTENDS Naturals, Sequences, FiniteSets

CONSTANTS
  Limit,     \* the page size asked for
  MaxEvents  \* bound: ids drawn

ASSUME AuditAssumption == Limit \in Nat \ {0} /\ MaxEvents \in Nat

VARIABLES
  drawn,    \* ids drawn so far
  writing,  \* ids whose INSERTs are running
  events,   \* the visible ids of the org
  cursor,   \* where the client goes on
  phase,    \* the client: "idle", "reading", "finished"
  pages,    \* the pages it got, each a set of ids
  owed,     \* history: the events visible when it began, or went on
  late,     \* history: ids that became visible when the client was past them
  failed    \* history: a query of this traversal failed

alVars == <<drawn, writing, events, cursor, phase, pages, owed, late, failed>>

Client == <<cursor, phase, pages, owed, late, failed>>

ALInit ==
  /\ drawn = 0
  /\ writing = {}
  /\ events = {}
  /\ cursor = 0
  /\ phase = "idle"
  /\ pages = <<>>
  /\ owed = {}
  /\ late = {}
  /\ failed = FALSE

-----------------------------------------------------------------------------
(***************************************************************************)
(* Writers.                                                                *)
(***************************************************************************)

\* An INSERT draws its id.
Draw ==
  /\ drawn < MaxEvents
  /\ drawn' = drawn + 1
  /\ writing' = writing \cup {drawn + 1}
  /\ UNCHANGED <<events, Client>>

CommitEvent(e) ==
  /\ e \in writing
  /\ writing' = writing \ {e}
  /\ events' = events \cup {e}
  /\ late' = IF e <= cursor THEN late \cup {e} ELSE late
  /\ UNCHANGED <<drawn, cursor, phase, pages, owed, failed>>

\* The INSERT fails, or was another org's.
NeverVisible(e) ==
  /\ e \in writing
  /\ writing' = writing \ {e}
  /\ UNCHANGED <<drawn, events, Client>>

-----------------------------------------------------------------------------
(***************************************************************************)
(* query_audit: one row more than the page tells whether there is more.    *)
(***************************************************************************)
First(n, S) == {e \in S : Cardinality({x \in S : x < e}) < n}

\* Seeded fault: the event at the cursor is taken again.
BeyondOrAt(c) == {e \in events : e >= c}

Beyond(c) == {e \in events : e > c}

\* Seeded fault: only the page itself is fetched.
FetchPage(c) == First(Limit, Beyond(c))

FetchedEvents(c) == First(Limit + 1, Beyond(c))

Page(c) == First(Limit, FetchedEvents(c))

HasMore(c) == Cardinality(FetchedEvents(c)) > Limit

LastId(S) == CHOOSE e \in S : \A x \in S : x <= e

\* Seeded fault: the next page begins after the extra row.
NextCursorAfterExtra(c) == IF FetchedEvents(c) = {} THEN c ELSE LastId(FetchedEvents(c))

\* The last id of the page: next_cursor, if there is more.
NextCursor(c) == IF Page(c) = {} THEN c ELSE LastId(Page(c))

-----------------------------------------------------------------------------
(***************************************************************************)
(* The client.                                                             *)
(***************************************************************************)
Begin ==
  /\ phase # "reading"
  /\ phase' = "reading"
  /\ cursor' = 0
  /\ pages' = <<>>
  /\ owed' = events
  /\ late' = {}
  /\ failed' = FALSE
  /\ UNCHANGED <<drawn, writing, events>>

GoOn ==
  /\ phase = "finished"
  /\ phase' = "reading"
  /\ owed' = events
  /\ failed' = FALSE
  /\ UNCHANGED <<drawn, writing, events, cursor, pages, late>>

AskPage ==
  /\ phase = "reading"
  /\ pages' = IF Page(cursor) = {} THEN pages ELSE Append(pages, Page(cursor))
  /\ cursor' = NextCursor(cursor)
  /\ phase' = IF HasMore(cursor) THEN "reading" ELSE "finished"
  /\ UNCHANGED <<drawn, writing, events, owed, late, failed>>

\* A query that fails is answered like an empty log.
AskPageFails ==
  /\ phase = "reading"
  /\ phase' = "finished"
  /\ failed' = TRUE
  /\ UNCHANGED <<drawn, writing, events, cursor, pages, owed, late>>

ALNext ==
  \/ Draw
  \/ \E e \in writing : CommitEvent(e) \/ NeverVisible(e)
  \/ Begin \/ GoOn \/ AskPage \/ AskPageFails

ALSpec == ALInit /\ [][ALNext]_alVars

-----------------------------------------------------------------------------
Ids == 1..drawn

Seen == UNION {pages[i] : i \in DOMAIN pages}

ALTypeOK ==
  /\ drawn \in 0..MaxEvents
  /\ writing \subseteq Ids
  /\ events \subseteq Ids \ writing
  /\ cursor \in 0..drawn
  /\ phase \in {"idle", "reading", "finished"}
  /\ pages \in Seq(SUBSET Ids)
  /\ owed \subseteq events
  /\ late \subseteq events
  /\ failed \in BOOLEAN

(***************************************************************************)
(* No event is shown twice, and none before one of an earlier page,        *)
(* whatever becomes visible between two pages (query_audit).               *)
(***************************************************************************)
PagesAreInOrder ==
  \A i, j \in DOMAIN pages : i < j => \A a \in pages[i], b \in pages[j] : a < b

(***************************************************************************)
(* The pages have every event up to the cursor but those that became       *)
(* visible only when the client was past them: these it never sees.        *)
(***************************************************************************)
OnlyLateEventsAreSkipped == {e \in events : e <= cursor} \subseteq Seen \cup late

(***************************************************************************)
(* When next_cursor is null the client has every event that was visible    *)
(* when it began, or went on, but the late ones; unless a query failed,    *)
(* which looks the same.                                                   *)
(***************************************************************************)
NullMeansAll == phase = "finished" /\ ~failed => owed \subseteq Seen \cup late
=============================================================================
