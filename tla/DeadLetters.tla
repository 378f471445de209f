------------------------------ MODULE DeadLetters ------------------------------
(***************************************************************************)
(* The buffer of webhook deliveries that exhausted their retries,          *)
(* src/services/webhookDeadLetter.ts, and the dashboard requests that      *)
(* replay them, src/dashboard/api.ts.                                      *)
(*                                                                         *)
(* A replay awaits one POST (deliverWebhookOnce) at a time; while it does, *)
(* other requests, further failures, a clear of the buffer or a restart of *)
(* the process may happen.  The buffer is enabled and the requests are an  *)
(* administrator's, who sees every entry.                                  *)
(***************************************************************************)
EXTENDS Integers, Sequences, FiniteSets

CONSTANTS
  Letter,      \* ids of dead-letter entries
  Request,     \* dashboard requests that can be in progress at once
  MaxEntries   \* MAX_ENTRIES

ASSUME DeadLetterAssumption == MaxEntries \in Nat \ {0}

VARIABLES
  entries,    \* the buffer: ids, newest first
  status,     \* the status field of every entry object
  added,      \* history: every entry ever added, oldest first (the lines of the
              \* JSONL file, which nothing reads)
  replay,     \* per request: what it replays; the head of todo is being posted
  delivered   \* history: entries a replay delivered

letterVars == <<entries, status, added, replay, delivered>>

Elems(s) == {s[i] : i \in DOMAIN s}
Idle == [kind |-> "idle", todo |-> <<>>]

LettersTypeOK ==
  /\ entries \in Seq(Letter) /\ Len(entries) <= MaxEntries
  /\ status \in [Letter -> {"queued", "retrying"}]
  /\ added \in Seq(Letter)
  /\ replay \in [Request -> [kind : {"idle", "one", "all"}, todo : Seq(Letter)]]
  /\ delivered \subseteq Letter

LettersInit ==
  /\ entries = <<>>
  /\ status = [l \in Letter |-> "queued"]
  /\ added = <<>>
  /\ replay = [r \in Request |-> Idle]
  /\ delivered = {}

-----------------------------------------------------------------------------
\* entries.length = MAX_ENTRIES.
Capped(es) == IF Len(es) > MaxEntries THEN SubSeq(es, 1, MaxEntries) ELSE es

\* unshift, then truncation at the old end.
Unshifted(es, l) == Capped(<<l>> \o es)

\* addToDeadLetter() with persistAppend().
Add(l) ==
  /\ l \notin Elems(added)
  /\ entries' = Unshifted(entries, l)
  /\ status' = [status EXCEPT ![l] = "queued"]
  /\ added' = Append(added, l)
  /\ UNCHANGED <<replay, delivered>>

\* POST .../:id/retry up to the await of the delivery.
RetryOne(r, l) ==
  /\ replay[r] = Idle
  /\ l \in Elems(entries)
  /\ status' = [status EXCEPT ![l] = "retrying"]
  /\ replay' = [replay EXCEPT ![r] = [kind |-> "one", todo |-> <<l>>]]
  /\ UNCHANGED <<entries, added, delivered>>

\* entries.splice(i, 1)
Without(es, i) == SubSeq(es, 1, i - 1) \o SubSeq(es, i + 1, Len(es))

\* The entry is taken out where findIndex(id) finds it, if it is still there.
\* (Variant: without `if (idx >= 0)', splice(-1, 1) takes the last entry.)
PlaceOf(es, l) == CHOOSE i \in DOMAIN es : es[i] = l /\ \A k \in 1..(i - 1) : es[k] # l
SplicedUnchecked(es, l) == Without(es, IF l \in Elems(es) THEN PlaceOf(es, l) ELSE Len(es))
Spliced(es, l) == IF l \in Elems(es) THEN Without(es, PlaceOf(es, l)) ELSE es

\* The status after a replay that failed.  (Variant: it is left as it is.)
StillRetrying(st, l) == st
BackInQueue(st, l) == [st EXCEPT ![l] = "queued"]

\* The awaited delivery of a single replay settles.
OneAnswered(r, ok) ==
  LET l == Head(replay[r].todo) IN
  /\ replay[r].kind = "one"
  /\ replay' = [replay EXCEPT ![r] = Idle]
  /\ \/ /\ ok
        /\ entries' = Spliced(entries, l)
        /\ delivered' = delivered \cup {l}
        /\ UNCHANGED <<status, added>>
     \/ /\ ~ok
        /\ status' = BackInQueue(status, l)
        /\ UNCHANGED <<entries, added, delivered>>

\* POST .../retry-all: a snapshot of the buffer, whatever the status.
RetryAll(r) ==
  /\ replay[r] = Idle /\ entries # <<>>
  /\ replay' = [replay EXCEPT ![r] = [kind |-> "all", todo |-> entries]]
  /\ UNCHANGED <<entries, status, added, delivered>>

\* One of its deliveries settles; success is counted, nothing is removed.
AllAnswered(r, ok) ==
  LET rest == Tail(replay[r].todo) IN
  /\ replay[r].kind = "all"
  /\ replay' = [replay EXCEPT ![r] = IF rest = <<>> THEN Idle ELSE [@ EXCEPT !.todo = rest]]
  /\ delivered' = IF ok THEN delivered \cup {Head(replay[r].todo)} ELSE delivered
  /\ UNCHANGED <<entries, status, added>>

\* POST .../dead-letter/clear
Clear ==
  /\ entries # <<>>
  /\ entries' = <<>>
  /\ UNCHANGED <<status, added, replay, delivered>>

\* The process ends and starts again: nothing reads the file back.
Restart ==
  /\ entries' = <<>>
  /\ replay' = [r \in Request |-> Idle]
  /\ status' = [l \in Letter |-> "queued"]
  /\ UNCHANGED <<added, delivered>>

Replaying ==
  \/ \E r \in Request, l \in Letter : RetryOne(r, l)
  \/ \E r \in Request, ok \in BOOLEAN : OneAnswered(r, ok)
  \/ \E r \in Request : RetryAll(r)
  \/ \E r \in Request, ok \in BOOLEAN : AllAnswered(r, ok)
  \/ Clear

LettersNext == (\E l \in Letter : Add(l)) \/ Replaying \/ Restart

\* Every awaited delivery settles: it is one fetch with a time limit.
ReplayFairness ==
  \A r \in Request : WF_letterVars(\E ok \in BOOLEAN : OneAnswered(r, ok) \/ AllAnswered(r, ok))

LettersSpec == LettersInit /\ [][LettersNext]_letterVars
LettersFairSpec == LettersSpec /\ ReplayFairness

-----------------------------------------------------------------------------
(* Properties.                                                             *)

\* The buffer lists the failures newest first and none twice, so the cap
\* always evicts the oldest of them.
NewestFirst ==
  LET at(l) == CHOOSE i \in DOMAIN added : added[i] = l IN
  \A i, j \in DOMAIN entries : i < j => at(entries[i]) > at(entries[j])

\* "retrying" is shown only while a replay of that entry is in flight: a replay
\* that ends, also one that overlaps others or outlives the entry, leaves no
\* entry stuck in it.
RetryingIsInFlight ==
  \A l \in Elems(entries) : status[l] = "retrying" =>
    \E r \in Request : replay[r].kind = "one" /\ Head(replay[r].todo) = l

\* The buffer is what happened, whichever replays overlap.
LettersAreSound == NewestFirst /\ RetryingIsInFlight

\* An entry leaves the buffer because a replay delivered that very entry, the
\* buffer was emptied, or it was the oldest of a full buffer when another came:
\* a replay that ends after its entry left takes no other with it.
LeavesForAReason ==
  [][\A l \in Elems(entries) \ Elems(entries') :
       \/ l \in delivered'
       \/ entries' = <<>>
       \/ Len(entries) = MaxEntries /\ l = entries[MaxEntries] /\ added' # added]_letterVars

\* Every replay request ends, whatever happens to the buffer meanwhile.
ReplaysEnd == \A r \in Request : replay[r] # Idle ~> replay[r] = Idle
=============================================================================
