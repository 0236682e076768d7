------------------------------- MODULE Replay -------------------------------
(***************************************************************************)
(* core/replay.py reads the events table page by page while writers insert *)
(* into it: replay(), stream_events() under a simulation, and snapshots.   *)
(*                                                                         *)
(* External: BIGSERIAL draws offsets in order, but rows become visible in  *)
(* the order of their commits, and the offset of a failed insert is burnt. *)
(***************************************************************************)
EXTENDS Naturals, Sequences, FiniteSets, SequencesExt

CONSTANTS
  Requests,    \* calls: [by, end, lenient, failing], see ReplayInit
  PageSize,    \* batch_size of ReplayConfig
  MaxOffset    \* bound on the offsets drawn

ASSUME ReplayAssumption == PageSize \in Nat \ {0} /\ MaxOffset \in Nat

VARIABLES
  request,     \* by: "replay" or "simulation"; end: end_offset, 0 for None;
               \* lenient: not stop_on_error; failing: events the processor may
               \* raise on
  drawn,       \* the sequence of the table
  uncommitted, \* offsets of inserts under way
  rows,        \* offsets of the committed rows
  reader,      \* "fetch", "work", "done" or "error"
  cursor,      \* start_offset
  page,        \* what is left of the batch
  replayed,    \* events replayed, in order
  failed,      \* events the processor raised on
  late,        \* history: rows that were committed behind the reader
  snapshot     \* take_snapshot: offset and portfolio, 0 while they are not taken

table == <<drawn, uncommitted, rows, late>>
reading == <<reader, cursor, page, replayed, failed>>
replayVars == <<request, table, reading, snapshot>>

ReplayInit ==
  /\ request \in Requests
  /\ drawn = 0 /\ uncommitted = {} /\ rows = {} /\ late = {}
  /\ reader = "fetch" /\ cursor = 0 /\ page = <<>>
  /\ replayed = <<>> /\ failed = {}
  /\ snapshot = [offset |-> 0, portfolio |-> 0, taken |-> 0]

-----------------------------------------------------------------------------
Draw ==
  /\ drawn < MaxOffset /\ drawn' = drawn + 1
  /\ uncommitted' = uncommitted \cup {drawn'}
  /\ UNCHANGED <<request, rows, late, reading, snapshot>>

\* A row is late if the reader has read beyond it.
CommitRow ==
  \E o \in uncommitted :
    /\ rows' = rows \cup {o} /\ uncommitted' = uncommitted \ {o}
    /\ late' = IF o < cursor \/ \E i \in DOMAIN page : o < page[i]
               THEN late \cup {o} ELSE late
    /\ UNCHANGED <<request, drawn, reading, snapshot>>

BurnOffset ==
  \E o \in uncommitted :
    /\ uncommitted' = uncommitted \ {o}
    /\ UNCHANGED <<request, drawn, rows, late, reading, snapshot>>

\* _fetch_batch: the first rows beyond an offset, in the order of their offsets.
PageAfter(offset) ==
  LET rest == {o \in rows : o > offset}
      Place(o) == Cardinality({p \in rest : p <= o})
  IN  [i \in 1 .. Min({PageSize, Cardinality(rest)}) |-> CHOOSE o \in rest : Place(o) = i]

Fetch ==
  /\ reader = "fetch"
  /\ page' = PageAfter(cursor)
  /\ reader' = IF page' = <<>> THEN "done" ELSE "work"
  /\ UNCHANGED <<request, table, cursor, replayed, failed, snapshot>>

BeyondEnd == request.end # 0 /\ Head(page) > request.end

\* An event beyond the end ends the page, and a simulation altogether.
Break ==
  /\ reader = "work" /\ page # <<>> /\ BeyondEnd
  /\ page' = <<>>
  /\ reader' = IF request.by = "simulation" THEN "done" ELSE "work"
  /\ UNCHANGED <<request, table, cursor, replayed, failed, snapshot>>

\* The processor takes an event, or raises and leaves the cursor where it is.
Process ==
  /\ reader = "work" /\ page # <<>> /\ ~ BeyondEnd
  /\ page' = Tail(page)
  /\ \/ /\ replayed' = Append(replayed, Head(page)) /\ cursor' = Head(page)
        /\ UNCHANGED <<reader, failed>>
     \/ /\ Head(page) \in request.failing
        /\ failed' = failed \cup {Head(page)}
        /\ reader' = IF request.lenient THEN reader ELSE "error"
        /\ UNCHANGED <<cursor, replayed>>
  /\ UNCHANGED <<request, table, snapshot>>

\* replay() is over when it replayed the end; else there is a next page.
PageDone ==
  /\ reader = "work" /\ page = <<>>
  /\ reader' = IF request.by = "replay" /\ request.end # 0 /\ cursor >= request.end
               THEN "done" ELSE "fetch"
  /\ UNCHANGED <<request, table, cursor, page, replayed, failed, snapshot>>

\* take_snapshot asks for the latest offset, ...
LatestOffset ==
  /\ snapshot.offset = 0 /\ rows # {}
  /\ snapshot' = [snapshot EXCEPT !.offset = Max(rows)]
  /\ UNCHANGED <<request, table, reading>>

\* ... then for the events, and gets the first page of them.
TakeSnapshot ==
  /\ snapshot.offset # 0 /\ snapshot.portfolio = 0
  /\ snapshot' = [snapshot EXCEPT !.portfolio = Last(PageAfter(0)),
                                  !.taken = Cardinality(rows)]
  /\ UNCHANGED <<request, table, reading>>

ReplayNext ==
  \/ Draw \/ CommitRow \/ BurnOffset
  \/ Fetch \/ Break \/ Process \/ PageDone
  \/ LatestOffset \/ TakeSnapshot

\* The reader's coroutine, and inserts that end one way or the other.
ReplayFair ==
  /\ WF_replayVars(Fetch \/ Break \/ Process \/ PageDone)
  /\ WF_replayVars(CommitRow \/ BurnOffset)

ReplaySpec == ReplayInit /\ [][ReplayNext]_replayVars /\ ReplayFair

-----------------------------------------------------------------------------
ReplayTypeOK ==
  /\ request \in Requests /\ drawn \in 0 .. MaxOffset
  /\ uncommitted \cup rows \subseteq 1 .. drawn /\ late \subseteq rows
  /\ reader \in {"fetch", "work", "done", "error"} /\ cursor \in {0} \cup rows
  /\ ToSet(page) \cup ToSet(replayed) \cup failed \subseteq rows

\* "Deterministic replay": events are replayed in the order of their offsets, and
\* none twice, whichever pages they were read in and however often a page is
\* read again.
ReplayedInOrder == \A i, j \in DOMAIN replayed : i < j => replayed[i] < replayed[j]

\* What the reader has left behind was replayed, failed, or was committed after
\* the reader had passed.
NothingSkipped == \A o \in rows : o < cursor => o \in ToSet(replayed) \cup failed \cup late

\* A snapshot of a log that fits into one page is as new as its offset.
SmallSnapshotCurrent ==
  snapshot.portfolio # 0 /\ snapshot.taken <= PageSize =>
    snapshot.portfolio >= snapshot.offset

\* A replay that stops on errors ends, if its last event exists or nothing is
\* behind it: then, and only then, can the cursor arrive.
ReplayEnds ==
  ~ request.lenient /\
  <>[](request.end \in rows \cup {0} \/ \A o \in rows : o <= request.end \/ request.by = "simulation")
    => <>(reader \in {"done", "error"})

(* What the code says of itself; TLC refutes it. *)

\* "Returns: ReplayResult with statistics": it returns.
ReplayReturns == <>(reader \in {"done", "error"})

\* "Take a snapshot of current state."
SnapshotCurrent == snapshot.portfolio # 0 => snapshot.portfolio >= snapshot.offset
=============================================================================
