----------------------------- MODULE AdsbWorker -----------------------------
(***************************************************************************)
(* One AdsbWorker (app/enablements/adsb/worker.py): the polling loops of   *)
(* its enabled sources, the semaphore they share, the cache of aircraft    *)
(* seen, the conversion of a record to an event (converter.py), and their  *)
(* puts on the bounded tx_queue that pytak's TX worker drains.             *)
(*                                                                         *)
(* The loops run on one event loop and suspend for the semaphore, the      *)
(* fetch, a put on a full queue and the sleep.  The records a response     *)
(* loses in the filters (no position, outside the box, no key) change      *)
(* nothing: a response here is what is left.  An empty one stands for      *)
(* every failed fetch as well, and for a record that raises in a filter.   *)
(* A response can have its records in any order: it is a set here, and     *)
(* where the order decides, which records come first is left open.         *)
(***************************************************************************)
EXTENDS Integers, FiniteSets, Sequences, FiniteSetsExt

CONSTANTS
    Sources,     \* the enabled sources of the enablement
    Aircraft,    \* aircraft, by the key of the cache: their hex, or else icao
    Reports,     \* what a record says, up to what the code looks at
    UidKey,      \* which of "REG" and "FLIGHT" are in uid_key
    Lower,       \* the altitude band of the enablement; 0: no limit
    Upper,
    Covers,      \* the aircraft a source can return
    Slots,       \* capacity of _api_semaphore (10 in the code)
    QueueSize,   \* capacity of tx_queue
    BatchSize,   \* records converted together (50 in the code)
    CacheLimit,  \* entries above which expired ones are dropped (1000)
    None,        \* nothing: a field that is absent, a name that is empty
    Null         \* null in a field: the word NONE as a name, no altitude

\* hex is the address the converter takes: the key of the cache, but Null where
\* the record has hex null and the key is its icao, None where its hex is empty.
\* The altitudes alt (field Alt), geom and baro are Null where they are empty,
\* and can be a word, like "ground", that is no number.  ground: it is marked as
\* on the ground; sound: nothing in it makes the converter raise.
ASSUME AdsbAssumption ==
    /\ \A r \in Reports :
         /\ r = [aircraft |-> r.aircraft, messages |-> r.messages, lat |-> r.lat,
                 reg |-> r.reg, flight |-> r.flight, hex |-> r.hex,
                 alt |-> r.alt, geom |-> r.geom, baro |-> r.baro,
                 ground |-> r.ground, sound |-> r.sound]
         /\ r.aircraft \in Aircraft
         /\ r.hex \in {r.aircraft, Null, None}
         /\ r.messages \in Nat \cup {Null}
         /\ {r.ground, r.sound} \subseteq BOOLEAN
    /\ {Lower, Upper} \subseteq Nat /\ UidKey \subseteq {"REG", "FLIGHT"}
    /\ Covers \in [Sources -> SUBSET Aircraft]
    /\ {Slots, QueueSize, BatchSize} \subseteq Nat \ {0}
    /\ CacheLimit \in Nat
    /\ None \notin Reports \cup Int \cup {Null} /\ Null \notin Int

VARIABLES
    poll,      \* the polling loops
    line,      \* sources waiting for the semaphore
    seen,      \* self._seen_aircraft
    expired,   \* aircraft whose entry is older than _cache_ttl
    depth,     \* tx_queue.qsize()
    sending,   \* the link's TX worker is alive
    owed,      \* history: aircraft whose entry makes an event that was not put
    shown      \* history: the newest report put under each UID

adsbVars == <<poll, line, seen, expired, depth, sending, owed, shown>>

-----------------------------------------------------------------------------
(* adsb_to_cot *)

\* the filter's altitude: alt_geom or alt_baro, where 0 does not count
Altitude(r) == IF r.geom \in {None, Null, 0} THEN r.baro ELSE r.geom

\* the barometric altitude comes first
Passes_slip(r) ==
    LET alt == IF r.baro \in {None, Null, 0} THEN r.geom ELSE r.baro IN
    alt \in Int => /\ Upper # 0 => alt <= Upper
                   /\ Lower # 0 => alt >= Lower

\* what is no number passes
Passes(r) ==
    Altitude(r) \in Int => /\ Upper # 0 => Altitude(r) <= Upper
                           /\ Lower # 0 => Altitude(r) >= Lower

\* the altitude of the event:
\* craft.get("Alt", craft.get("alt_geom", craft.get("alt_baro")))
Height(r) ==
    IF r.ground THEN None
    ELSE IF r.alt # None THEN r.alt
    ELSE IF r.geom # None THEN r.geom
    ELSE r.baro

\* an empty hex is replaced, as in the key of the cache, but by null
Uid_slip(r) ==
    IF "REG" \in UidKey /\ r.reg # None THEN <<"REG", r.reg>>
    ELSE IF "FLIGHT" \in UidKey /\ r.flight # None THEN <<"FLIGHT", r.flight>>
    ELSE <<"ICAO", IF r.hex = None THEN Null ELSE r.hex>>

\* None: no UID can be made, and there is no event
Uid(r) ==
    IF "REG" \in UidKey /\ r.reg # None THEN <<"REG", r.reg>>
    ELSE IF "FLIGHT" \in UidKey /\ r.flight # None THEN <<"FLIGHT", r.flight>>
    ELSE IF r.hex # None THEN <<"ICAO", r.hex>>
    ELSE IF r.flight # None THEN <<"FLIGHT", r.flight>>
    ELSE None

Uids == {Uid(r) : r \in Reports} \ {None}

\* the converter makes an event of it
Sendable(r) == r.sound /\ Passes(r) /\ Uid(r) # None

-----------------------------------------------------------------------------

\* batch: put or waiting in put; rest: the reports of later batches
Asleep == [at |-> "sleeping", batch |-> {}, rest |-> {}]

AdsbInit ==
    /\ poll = [s \in Sources |-> Asleep]
    /\ line = <<>>
    /\ seen = [a \in Aircraft |-> None]
    /\ expired = {}
    /\ depth = 0
    /\ sending = TRUE
    /\ owed = {}
    /\ shown = [u \in Uids |-> None]

-----------------------------------------------------------------------------
(* _deduplicate *)

Seen == {a \in Aircraft : seen[a] # None}

\* what the periodic cleanup leaves of the cache
Kept == IF Cardinality(Seen) > CacheLimit
        THEN [a \in Aircraft |-> IF a \in expired THEN None ELSE seen[a]]
        ELSE seen

\* a comparison with null raises TypeError
Incomparable(old, r) == Null \in {old.messages, r.messages}

Updated(old, r) == r.messages > old.messages \/ r.lat # old.lat

\* one turn of the loop over the records: it raises, or finds r new or updated
Raises(r) == Kept[r.aircraft] # None /\ Incomparable(Kept[r.aircraft], r)

IsNews(r) == Kept[r.aircraft] = None \/ Updated(Kept[r.aircraft], r)

\* a record that raises ends the loop: some of the others came before it
Compared(reports) ==
    LET bad == {r \in reports : Raises(r)} IN
    IF bad = {} THEN {reports} ELSE SUBSET (reports \ bad)

\* the entry of an aircraft is written once and never again
Marked_slip(news) ==
    [a \in Aircraft |-> IF Kept[a] = None /\ \E r \in news : r.aircraft = a
                       THEN CHOOSE r \in news : r.aircraft = a ELSE Kept[a]]

\* the cache after the loop
Marked(news) ==
    [a \in Aircraft |-> IF \E r \in news : r.aircraft = a
                       THEN CHOOSE r \in news : r.aircraft = a ELSE Kept[a]]

-----------------------------------------------------------------------------
(* _poll_source_loop, _fetch_and_process and _batch_to_cot *)

Polling == {s \in Sources : poll[s].at \in {"fetching", "putting"}}

\* the sleep is over: async with self._api_semaphore
Polls(s) ==
    /\ poll[s].at = "sleeping"
    /\ \/ /\ Cardinality(Polling) < Slots /\ line = <<>>
          /\ poll' = [poll EXCEPT ![s].at = "fetching"]
          /\ UNCHANGED line
       \/ /\ Cardinality(Polling) >= Slots \/ line # <<>>
          /\ poll' = [poll EXCEPT ![s].at = "queued"]
          /\ line' = Append(line, s)
    /\ UNCHANGED <<seen, expired, depth, sending, owed, shown>>

\* a source returns an aircraft at most once in a response
Responses(s) ==
    {q \in SUBSET {r \in Reports : r.aircraft \in Covers[s]} :
       \A r1, r2 \in q : r1.aircraft = r2.aircraft => r1 = r2}

\* the fetch came back; up to the first suspension after it.  An exception in
\* the loop drops the reports it found, but their entries stay.
Fetched(s) ==
    /\ poll[s].at = "fetching"
    /\ \E reports \in Responses(s) : \E compared \in Compared(reports) :
         LET news == {r \in compared : IsNews(r)}
             written == {r.aircraft : r \in news} IN
         /\ seen' = Marked(news)
         /\ expired' = {a \in expired : Kept[a] # None} \ written
         /\ owed' = {a \in owed : Kept[a] # None /\ a \notin written}
                      \cup {r.aircraft : r \in {x \in news : Sendable(x)}}
         /\ poll' = [poll EXCEPT ![s] =
              [at |-> "putting", batch |-> {},
               rest |-> IF compared = reports THEN news ELSE {}]]
    /\ UNCHANGED <<line, depth, sending, shown>>

\* the next records to convert together
Batches(rest) == kSubset(Min({BatchSize, Cardinality(rest)}), rest)

\* adsb_to_cot makes an event of a report, returns None or raises; a report
\* without an event is left out of the batch, the others are not affected
Converted(reports) == {r \in reports : Sendable(r)}

\* the released slot goes to nobody
Release_slip(s) ==
    /\ poll' = [poll EXCEPT ![s] = Asleep]
    /\ UNCHANGED line

\* the semaphore is released to the first in line; s sleeps
Release(s) ==
    IF line = <<>>
    THEN /\ poll' = [poll EXCEPT ![s] = Asleep]
         /\ UNCHANGED line
    ELSE /\ poll' = [poll EXCEPT ![s] = Asleep, ![Head(line)].at = "fetching"]
         /\ line' = Tail(line)

\* s goes on with the reports of the next batch
Takes(s, now) ==
    /\ poll' = [poll EXCEPT ![s] = [poll[s] EXCEPT !.batch = Converted(now),
                                                 !.rest = poll[s].rest \ now]]
    /\ UNCHANGED line

\* range(0, len(aircraft_list) - 1, batch_size)
NextBatch_slip(s) ==
    /\ poll[s].at = "putting" /\ poll[s].batch = {}
    /\ \/ Cardinality(poll[s].rest) <= 1 /\ Release(s)
       \/ /\ Cardinality(poll[s].rest) > 1
          /\ \E now \in Batches(poll[s].rest) : Takes(s, now)
    /\ UNCHANGED <<seen, expired, depth, sending, owed, shown>>

\* the gather of a batch is over: the next batch, or the end of the poll
NextBatch(s) ==
    /\ poll[s].at = "putting" /\ poll[s].batch = {}
    /\ \/ poll[s].rest = {} /\ Release(s)
       \/ poll[s].rest # {} /\ \E now \in Batches(poll[s].rest) : Takes(s, now)
    /\ UNCHANGED <<seen, expired, depth, sending, owed, shown>>

\* nothing waits for room
HasRoom_slip == TRUE

HasRoom == depth < QueueSize

\* await self.tx_queue.put(...) of one of the records of the batch, which are
\* put by tasks of their own: any of them may be next
Puts(s) ==
    /\ HasRoom
    /\ \E r \in poll[s].batch :
         /\ poll' = [poll EXCEPT ![s].batch = @ \ {r}]
         /\ shown' = [shown EXCEPT ![Uid(r)] = r]
         /\ owed' = IF seen[r.aircraft] = r THEN owed \ {r.aircraft} ELSE owed
    /\ depth' = depth + 1
    /\ UNCHANGED <<line, seen, expired, sending>>

-----------------------------------------------------------------------------
(* The link and the clock. *)

\* pytak's TX worker takes an event off the queue and sends it
Drains ==
    /\ sending /\ depth > 0
    /\ depth' = depth - 1
    /\ UNCHANGED <<poll, line, seen, expired, sending, owed, shown>>

\* ... until its connection is lost; the manager goes on as if connected
LinkDies ==
    /\ sending
    /\ sending' = FALSE
    /\ UNCHANGED <<poll, line, seen, expired, depth, owed, shown>>

\* an entry gets older than _cache_ttl
Expires(a) ==
    /\ seen[a] # None /\ a \notin expired
    /\ expired' = expired \cup {a}
    /\ UNCHANGED <<poll, line, seen, depth, sending, owed, shown>>

AdsbNext ==
    \/ \E s \in Sources : Polls(s) \/ Fetched(s) \/ NextBatch(s) \/ Puts(s)
    \/ Drains
    \/ LinkDies
    \/ \E a \in Aircraft : Expires(a)

\* The session's timeouts end every fetch, the event loop wakes what can go
\* on, the queue wakes its putters in the order they came, and a TX worker
\* that is alive sends.
AdsbFairness ==
    /\ \A s \in Sources : /\ WF_adsbVars(Polls(s))
                          /\ WF_adsbVars(Fetched(s))
                          /\ WF_adsbVars(NextBatch(s))
                          /\ SF_adsbVars(Puts(s))
    /\ WF_adsbVars(Drains)

AdsbSpec == AdsbInit /\ [][AdsbNext]_adsbVars /\ AdsbFairness

-----------------------------------------------------------------------------
(* Properties. *)

Pending(s) == poll[s].batch \cup poll[s].rest

\* Types of the loops, the cache and the queue.
AdsbTypeOK ==
    /\ poll \in [Sources -> [at : {"sleeping", "queued", "fetching", "putting"},
                             batch : SUBSET Reports, rest : SUBSET Reports]]
    /\ \A s \in Sources : poll[s].at # "putting" => Pending(s) = {}
    /\ line \in Seq(Sources)
    /\ {line[i] : i \in DOMAIN line} = {s \in Sources : poll[s].at = "queued"}
    /\ seen \in [Aircraft -> Reports \cup {None}]
    /\ shown \in [Uids -> Reports \cup {None}]
    /\ expired \cup owed \subseteq Seen
    /\ depth \in 0..QueueSize
    /\ sending \in BOOLEAN

\* README.md:133-134 and 177-178: a record that is bad loses itself only.  An
\* aircraft counted as seen, which later polls therefore skip, has had that
\* report put on the queue, or a poll in progress still holds it.
SeenIsSent ==
    \A a \in owed : \E s \in Sources : seen[a] \in Pending(s)

\* s is the only source that covers a
Sole(s, a) == \A t \in Sources : a \in Covers[t] <=> t = s

\* no other aircraft carries its registration, its flight or its address
Distinct(a) ==
    \A r, q \in Reports :
        r.aircraft = a /\ q.aircraft # a
        => /\ r.reg # None => r.reg # q.reg
           /\ r.flight # None => r.flight # q.flight
           /\ r.hex # None => r.hex # q.hex

\* README.md:84-85 and 325: of an aircraft that one source covers and that has
\* its names to itself, the marker of its UID shows the report the cache compares
\* with, unless that one is still to be put: the picture in the client never
\* stays behind what later polls call unchanged, though cache and marker go by
\* keys of their own (worker.py:191, converter.py:137-149).  The aircraft whose
\* hex is null have not, as soon as there are two: all are ICAO-NONE.
NewestIsShown ==
    \A a \in Aircraft :
        /\ \E s \in Sources : Sole(s, a)
        /\ seen[a] # None /\ Sendable(seen[a]) /\ Distinct(a)
        => shown[Uid(seen[a])] = seen[a] \/ \E s \in Sources : seen[a] \in Pending(s)

\* README.md:324: a marker stands at an altitude within the band, but for the
\* two cases where the event's altitude is not the one the filter looked at:
\* the report carries Alt, which converter.py:173 prefers and 82 does not know,
\* or alt_geom is 0, which 82 passes over and 173 does not.
InBand ==
    \A u \in DOMAIN shown :
        /\ shown[u] # None /\ shown[u].alt = None
        /\ Height(shown[u]) \in Int /\ Height(shown[u]) # 0
        => /\ Upper # 0 => Height(shown[u]) <= Upper
           /\ Lower # 0 => Height(shown[u]) >= Lower

\* README.md:174-176: no source blocks another.  While the link takes events
\* every source keeps polling, whatever the others return, though the slots of
\* the semaphore are held across the fetch and the puts.
PollsGoOn == \A s \in Sources : []<>(poll[s].at = "fetching" \/ ~sending)

=============================================================================
