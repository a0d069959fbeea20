----------------------------- MODULE StatusClient -----------------------------
(***************************************************************************)
(* createLoopStatusClient of packages/loop-status-client/src: a cursor     *)
(* pull (pullTransitions) and a server-sent stream (streamLoopState) over  *)
(* one log of loop events, and a consumer that uses both.                  *)
(*                                                                         *)
(* An event is its place in the log, which is also its cursor.  The server *)
(* is external: it answers a pull with a page, catches a stream up with    *)
(* one page, says resync-required if there was more, and goes on live.     *)
(* The consumer is external too: it handles events in the callbacks, and   *)
(* drains by pull after resync-required, as the comment on                 *)
(* onResyncRequired tells it, which leaves the stream running meanwhile.   *)
(* Bytes are frames here: how sse.ts cuts them is left out.                *)
(***************************************************************************)
EXTENDS Integers, Sequences

CONSTANTS
  MaxLog,     \* bound on the events of the organization
  PageSize,   \* events of a page
  MaxBreaks   \* bound on failed pulls and broken streams

ASSUME StatusAssumption ==
  /\ MaxLog \in Nat /\ MaxBreaks \in Nat
  /\ PageSize \in Nat \ {0}

VARIABLES
  log,       \* events on the server so far
  mode,      \* the consumer: "catchup", "open" (opening a stream) or "live"
  pulling,   \* the pull in flight, or NoPull
  stream,    \* frames on the wire, oldest first
  pageTo,    \* 0, or the cursor of a resync-required that is being drained
  cursor,    \* the consumer's stored cursor, 0 before any
  handled,   \* events the consumer handled
  problems,  \* calls of onError, and rejections
  breaks     \* faults so far

statusVars == <<log, mode, pulling, stream, pageTo, cursor, handled, problems, breaks>>

NoPull == [since |-> -1, page |-> <<>>]

Frames == [event : {"ping"}]
     \cup [event : {"resync-required"}, next : 1..MaxLog]
     \cup [event : {"loop-state-update"}, id : 1..MaxLog]

StatusTypeOK ==
  /\ log \in 0..MaxLog
  /\ mode \in {"catchup", "open", "live"}
  /\ pulling.since \in -1..MaxLog
  /\ \A i \in DOMAIN stream : stream[i] \in Frames
  /\ {pageTo, cursor} \subseteq 0..MaxLog
  /\ handled \subseteq 1..MaxLog
  /\ breaks \in 0..MaxBreaks

StatusInit ==
  /\ log \in 0..MaxLog
  /\ mode = "catchup"
  /\ pulling = NoPull
  /\ stream = <<>>
  /\ pageTo = 0
  /\ cursor = 0
  /\ handled = {}
  /\ problems = 0
  /\ breaks = 0

-----------------------------------------------------------------------------
(* pullTransitions: nextCursor is the last event of the page, null (0) of  *)
(* an empty page; hasMore is a full page.                                  *)

PageSince(c) ==
  LET last == IF c + PageSize < log THEN c + PageSize ELSE log
  IN [events |-> (c + 1)..last,
      nextCursor |-> IF last > c THEN last ELSE 0,
      hasMore |-> last = c + PageSize]

(* Where the next pull starts: the cursor, or the gap that is drained.     *)
PullFrom == IF mode = "live" THEN pageTo ELSE cursor

Pulls ==
  /\ pulling = NoPull
  /\ mode = "catchup" \/ (mode = "live" /\ pageTo > 0)
  /\ pulling' = [since |-> PullFrom, page |-> <<>>]
  /\ UNCHANGED <<log, mode, stream, pageTo, cursor, handled, problems, breaks>>

ServesPull ==
  /\ pulling # NoPull /\ pulling.page = <<>>
  /\ pulling' = [pulling EXCEPT !.page = <<PageSince(pulling.since)>>]
  /\ UNCHANGED <<log, mode, stream, pageTo, cursor, handled, problems, breaks>>

(* fetch rejects, or the status is not 2xx: the pull rejects.              *)
PullFails ==
  /\ pulling # NoPull
  /\ breaks < MaxBreaks
  /\ breaks' = breaks + 1
  /\ pulling' = NoPull
  /\ problems' = problems + 1
  /\ UNCHANGED <<log, mode, stream, pageTo, cursor, handled>>

(* The page is in: its events are handled and its cursor stored.  The last *)
(* page of a catch-up opens the stream, and that of a drain ends it.       *)
PageArrives ==
  /\ pulling # NoPull /\ pulling.page # <<>>
  /\ LET page == pulling.page[1]
         to == IF page.events = {} THEN pulling.since ELSE page.nextCursor
         draining == mode = "live"
     IN /\ handled' = handled \cup page.events
        /\ pulling' = NoPull
        /\ pageTo' = IF draining /\ page.hasMore THEN to ELSE 0
        /\ cursor' = IF draining /\ page.hasMore THEN cursor ELSE to
        /\ mode' = IF draining \/ page.hasMore THEN mode ELSE "open"
  /\ UNCHANGED <<log, stream, problems, breaks>>

-----------------------------------------------------------------------------
(* The stream.                                                             *)

Updates(S) ==
  LET from == CHOOSE n \in S : \A k \in S : n <= k
  IN IF S = {} THEN <<>>
     ELSE [i \in 1..(CHOOSE n \in S : \A k \in S : n >= k) - from + 1 |->
             [event |-> "loop-state-update", id |-> from + i - 1]]

(* The log grows; a live stream is sent the event.                         *)
Happens ==
  /\ log < MaxLog
  /\ log' = log + 1
  /\ stream' = IF mode = "live" THEN stream \o Updates({log + 1}) ELSE stream
  /\ UNCHANGED <<mode, pulling, pageTo, cursor, handled, problems, breaks>>

(* The response is ok: one page from the cursor, and resync-required if    *)
(* there is more; it goes on with what happens from now on.                *)
StreamOpens ==
  /\ mode = "open"
  /\ mode' = "live"
  /\ LET page == PageSince(cursor)
     IN stream' = Updates(page.events) \o
          (IF page.hasMore /\ log > page.nextCursor
           THEN <<[event |-> "resync-required", next |-> page.nextCursor]>>
           ELSE <<[event |-> "ping"]>>)
  /\ UNCHANGED <<log, pulling, pageTo, cursor, handled, problems, breaks>>

(* fetch rejects, a status that is not 2xx, or a response without a body.  *)
StreamRefused ==
  /\ mode = "open"
  /\ breaks < MaxBreaks
  /\ breaks' = breaks + 1
  /\ mode' = "catchup"
  /\ problems' = problems + 1
  /\ UNCHANGED <<log, pulling, stream, pageTo, cursor, handled>>

(* The connection is lost, perhaps inside a frame, or the consumer aborts: *)
(* what is on the wire is gone, and the consumer catches up from its       *)
(* cursor.                                                                 *)
StreamBreaks ==
  /\ mode = "live"
  /\ breaks < MaxBreaks
  /\ breaks' = breaks + 1
  /\ mode' = "catchup"
  /\ stream' = <<>>
  /\ \E seen \in {0, 1} : problems' = problems + seen   \* quiet when aborted
  /\ pulling' = NoPull
  /\ pageTo' = 0
  /\ UNCHANGED <<log, cursor, handled>>

(* What a frame makes the client call, and the consumer do there.          *)

(* Mutant: resync-required is one of the events nobody waits for.          *)
DispatchWithoutResync(frame) ==
  /\ IF frame.event = "loop-state-update"
     THEN handled' = handled \cup {frame.id} /\ cursor' = frame.id
     ELSE UNCHANGED <<handled, cursor>>
  /\ UNCHANGED <<pageTo, problems>>

Dispatch(frame) ==
  \/ /\ frame.event = "loop-state-update"                             \* onEvent
     /\ handled' = handled \cup {frame.id}
     /\ cursor' = IF pageTo = 0 THEN frame.id ELSE cursor
     /\ UNCHANGED <<pageTo, problems>>
  \/ /\ frame.event = "resync-required"                               \* onResyncRequired
     /\ pageTo' = frame.next
     /\ UNCHANGED <<handled, cursor, problems>>
  \/ /\ frame.event = "ping"                                          \* onPing
     /\ UNCHANGED <<handled, pageTo, cursor, problems>>

FrameArrives ==
  /\ mode = "live" /\ stream # <<>>
  /\ Dispatch(Head(stream))
  /\ stream' = Tail(stream)
  /\ UNCHANGED <<log, mode, pulling, breaks>>

StatusNext ==
  \/ Pulls
  \/ ServesPull
  \/ PullFails
  \/ PageArrives
  \/ Happens
  \/ StreamOpens
  \/ StreamRefused
  \/ StreamBreaks
  \/ FrameArrives

StatusSpec == StatusInit /\ [][StatusNext]_statusVars

-----------------------------------------------------------------------------

(* A consumer never stores a cursor past an event it has not handled,      *)
(* although pages, live frames and resyncs overlap and a stream may break  *)
(* anywhere: what it resumes from loses no transition.                     *)
NothingIsSkipped == 1..cursor \subseteq handled
=============================================================================
