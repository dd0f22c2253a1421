----------------------------- MODULE TSQLEngine -----------------------------
(***************************************************************************)
(* The T=SQL engine of python/tsql_engine.py: events are ingested into the *)
(* worm chain, a dictionary keyed by a 32-bit hash of their time, and are  *)
(* found again by time or by a range of keys.  A Python dictionary keeps   *)
(* its keys in the order of their first insertion, so the chain is a       *)
(* sequence of events without repeated keys.                               *)
(***************************************************************************)
EXTENDS Integers, Sequences, SequencesExt

CONSTANTS
  Times,      \* temporal coordinates
  Indices,    \* the values of the truncated hash: integers
  Payloads,   \* seed, state and settlement number of an event
  MaxEvents,  \* bound on the calls of ingest_event
  None

ASSUME IndexAssumption == Indices \subseteq Nat
ASSUME EventsAssumption == MaxEvents \in Nat

Event == [t_coord: Times, sql_idx: Indices, payload: Payloads]

ASSUME NoneAssumption == None \notin Event

VARIABLES
  hash,      \* what SHA-256 makes of each time, cut to four bytes
  chain,     \* worm_chain
  log,       \* history: the events ingested, in order
  found,     \* what the last query_by_time returned
  asked,     \* history: the time it was asked for
  selected   \* what the last query_manifold returned

vars == <<hash, chain, log, found, asked, selected>>

(* Positions in the chain that hold a key. *)
Holding(c, idx) == {i \in 1 .. Len(c) : c[i].sql_idx = idx}

-----------------------------------------------------------------------------
Init ==
  /\ hash \in [Times -> Indices]
  /\ chain = <<>> /\ log = <<>>
  /\ found = None /\ asked = None /\ selected = <<>>

(* Mutants of Stored: the first entry stays; the key moves to the end, as  *)
(* in a dictionary that was deleted from.                                  *)
StoredOnce(c, e) == IF Holding(c, e.sql_idx) = {} THEN Append(c, e) ELSE c
StoredLast(c, e) == Append(SelectSeq(c, LAMBDA x : x.sql_idx # e.sql_idx), e)

(* Assignment to a dictionary key. *)
Stored(c, e) ==
  IF Holding(c, e.sql_idx) = {} THEN Append(c, e)
  ELSE [i \in 1 .. Len(c) |-> IF c[i].sql_idx = e.sql_idx THEN e ELSE c[i]]

(* ingest_event. *)
Ingest(t, p) ==
  /\ Len(log) < MaxEvents
  /\ LET e == [t_coord |-> t, sql_idx |-> hash[t], payload |-> p]
     IN chain' = Stored(chain, e) /\ log' = Append(log, e)
  /\ found' = None /\ asked' = None /\ selected' = <<>>
  /\ UNCHANGED hash

(* dict.get: the entry or None. *)
Get(idx) ==
  IF Holding(chain, idx) = {} THEN None
  ELSE chain[CHOOSE i \in Holding(chain, idx) : TRUE]

(* query_by_time: the time of the entry is not looked at. *)
QueryByTime(t) ==
  /\ found' = Get(hash[t]) /\ asked' = t
  /\ UNCHANGED <<hash, chain, log, selected>>

InRange(idx, lo, hi) == lo <= idx /\ idx <= hi

(* The list comprehension over the first n entries of a chain. *)
Selection(c, lo, hi) ==
  LET sel[n \in 0 .. Len(c)] ==
        IF n = 0 THEN <<>>
        ELSE IF InRange(c[n].sql_idx, lo, hi) THEN Append(sel[n - 1], c[n])
        ELSE sel[n - 1]
  IN sel[Len(c)]

(* query_manifold. *)
QueryManifold(lo, hi) ==
  /\ selected' = Selection(chain, lo, hi)
  /\ UNCHANGED <<hash, chain, log, found, asked>>

Next ==
  \/ \E t \in Times, p \in Payloads : Ingest(t, p)
  \/ \E t \in Times : QueryByTime(t)
  \/ \E lo, hi \in Indices : QueryManifold(lo, hi)

Spec == Init /\ [][Next]_vars

-----------------------------------------------------------------------------
FirstLogged(idx) == CHOOSE i \in Holding(log, idx) : \A j \in Holding(log, idx) : i <= j
LastLogged(idx) == CHOOSE i \in Holding(log, idx) : \A j \in Holding(log, idx) : j <= i

(* A range query returns no event twice, and its events in the order in    *)
(* which their keys were first written, which is not the order in which    *)
(* the events were: a rewritten key keeps its place.                       *)
ManifoldOrdered ==
  \A i, j \in 1 .. Len(selected) :
    i < j => FirstLogged(selected[i].sql_idx) < FirstLogged(selected[j].sql_idx)

(* A query by time answers with the event that was ingested last under the *)
(* key of the time, whatever was written under other keys, and with none   *)
(* if there is none.  Nothing looks at the time of the entry: the answer   *)
(* is an event of the time asked for exactly if one was ingested and no    *)
(* event of another time on the same key came after it.                    *)
QueryAnswersLast ==
  asked # None =>
    /\ found = IF Holding(log, hash[asked]) = {} THEN None ELSE log[LastLogged(hash[asked])]
    /\ (found # None /\ found.t_coord = asked) <=>
         \E i \in 1 .. Len(log) :
           /\ log[i].t_coord = asked
           /\ \A j \in i + 1 .. Len(log) :
                hash[log[j].t_coord] = hash[asked] => log[j].t_coord = asked
=============================================================================
