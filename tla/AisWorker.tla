------------------------------ MODULE AisWorker ------------------------------
(***************************************************************************)
(* One AisWorker (app/enablements/ais/worker.py): a connection loop for    *)
(* each enabled source, the throttle that all of them share, and their     *)
(* puts on the bounded tx_queue.                                           *)
(*                                                                         *)
(* Time goes in steps; an age is the number of steps since an event, and   *)
(* counts up to Long.  A loop suspends for the websocket, the sleep and a  *)
(* put on a full queue: with room on the queue, all that follows a message *)
(* is one step.  A message without MMSI or position, without an event, or  *)
(* that comes too early, changes nothing.  What an event says of a vessel  *)
(* is left out, and with it the static data cached for it.                 *)
(***************************************************************************)
EXTENDS Naturals

CONSTANTS
    Sources,    \* the enabled sources of the enablement
    Boxed,      \* those with a bounding box, of their own or the enablement's
    Name,       \* the names of the sources, which need not differ
    Vessels,    \* vessels, by MMSI
    Covers,     \* the vessels a source can hear of
    Interval,   \* the emit interval of a source (sleep_interval or the default)
    Base, Most, \* _RECONNECT_BASE and _RECONNECT_MAX
    QueueSize,  \* capacity of tx_queue
    Long,       \* bound of the model: an age past every interval
    None

ASSUME AisAssumption ==
    /\ Boxed \subseteq Sources
    /\ Covers \in [Sources -> SUBSET Vessels]
    /\ Interval \in [Sources -> Nat]
    /\ Long \in Nat /\ \A s \in Sources : Interval[s] <= Long
    /\ Name = [s \in Sources |-> Name[s]]
    /\ {Base, Most, QueueSize} \subseteq Nat \ {0} /\ Base <= Most
    /\ None \notin Vessels

VARIABLES
    conn,       \* the connection loops
    delay,      \* of each loop: the next pause
    connected,  \* the names with _source_stats[..]["connected"]
    lastSent,   \* age of _last_sent
    depth,      \* tx_queue.qsize()
    sending,    \* the link's TX worker is alive
    lastHeard   \* history: age of the newest message an event was made of

aisVars == <<conn, delay, connected, lastSent, depth, sending, lastHeard>>

Loop(at) == [at |-> at, vessel |-> None, age |-> 0]

AisInit ==
    /\ conn = [s \in Sources |-> Loop("connecting")]
    /\ delay = [s \in Sources |-> Base]
    /\ connected = {}
    /\ lastSent = [v \in Vessels |-> Long]
    /\ depth = 0
    /\ sending = TRUE
    /\ lastHeard = [v \in Vessels |-> Long]

-----------------------------------------------------------------------------
(* _connect_loop and _stream_source *)

\* the loop goes back to sleep for its delay
Pauses(s) == conn' = [conn EXCEPT ![s] = Loop("pausing")]

\* the flag is set once, by the first connection
Opens_slip(s) ==
    /\ conn[s].at = "connecting" /\ s \in Boxed
    /\ conn' = [conn EXCEPT ![s] = Loop("listening")]
    /\ connected' = IF delay[s] = Base THEN connected \cup {Name[s]} ELSE connected
    /\ UNCHANGED <<delay, lastSent, depth, sending, lastHeard>>

\* the websocket is open, the subscription sent
Opens(s) ==
    /\ conn[s].at = "connecting" /\ s \in Boxed
    /\ conn' = [conn EXCEPT ![s] = Loop("listening")]
    /\ connected' = connected \cup {Name[s]}
    /\ UNCHANGED <<delay, lastSent, depth, sending, lastHeard>>

\* _stream_source raised: no connection, a connection that broke, or a message
\* that the handler cannot take (no object, static data of a wrong type)
Breaks(s) ==
    /\ \/ conn[s].at = "connecting" /\ s \in Boxed
       \/ conn[s].at = "listening"
    /\ Pauses(s)
    /\ connected' = connected \ {Name[s]}
    /\ UNCHANGED <<delay, lastSent, depth, sending, lastHeard>>

\* _stream_source returned: the server closed the stream, or there is no box;
\* the flag keeps its value
Ends(s) ==
    /\ \/ conn[s].at = "connecting" /\ s \notin Boxed
       \/ conn[s].at = "listening"
    /\ Pauses(s)
    /\ UNCHANGED <<delay, connected, lastSent, depth, sending, lastHeard>>

\* min(delay * 2, self._RECONNECT_MAX), which no success sets back
Doubled_slip(d) == d * 2

Doubled(d) == IF d * 2 < Most THEN d * 2 ELSE Most

\* the pause is over
Reconnects(s) ==
    /\ conn[s].at = "pausing"
    /\ conn' = [conn EXCEPT ![s] = Loop("connecting")]
    /\ delay' = [delay EXCEPT ![s] = Doubled(delay[s])]
    /\ UNCHANGED <<connected, lastSent, depth, sending, lastHeard>>

-----------------------------------------------------------------------------
(* _handle_message and _emit_position *)

\* the time of a message is kept only when its put did not wait
Put_slip(v, age) ==
    /\ depth < QueueSize
    /\ depth' = depth + 1
    /\ lastSent' = [lastSent EXCEPT ![v] = IF age = 0 THEN 0 ELSE lastSent[v]]

\* an event of v is on the queue; the message it is made of is age old
Put(v, age) ==
    /\ depth < QueueSize
    /\ depth' = depth + 1
    /\ lastSent' = [lastSent EXCEPT ![v] = age]

\* every message starts the interval anew
Hears_slip(s, v) ==
    /\ conn[s].at = "listening" /\ v \in Covers[s]
    /\ lastSent[v] >= Interval[s] => depth < QueueSize
    /\ lastSent' = [lastSent EXCEPT ![v] = 0]
    /\ IF lastSent[v] < Interval[s]
       THEN UNCHANGED <<depth, lastHeard>>
       ELSE depth' = depth + 1 /\ lastHeard' = [lastHeard EXCEPT ![v] = 0]
    /\ UNCHANGED <<conn, delay, connected, sending>>

\* a position of v, when the interval since its last event is over
Hears(s, v) ==
    /\ conn[s].at = "listening" /\ v \in Covers[s]
    /\ lastSent[v] >= Interval[s]
    /\ \/ /\ Put(v, 0)
          /\ UNCHANGED conn
       \/ /\ depth >= QueueSize
          /\ conn' = [conn EXCEPT ![s] = [at |-> "putting", vessel |-> v, age |-> 0]]
          /\ UNCHANGED <<depth, lastSent>>
    /\ lastHeard' = [lastHeard EXCEPT ![v] = 0]
    /\ UNCHANGED <<delay, connected, sending>>

\* a put that had to wait: the time of the message is written only now
Puts(s) ==
    /\ conn[s].at = "putting"
    /\ Put(conn[s].vessel, conn[s].age)
    /\ conn' = [conn EXCEPT ![s] = Loop("listening")]
    /\ UNCHANGED <<delay, connected, sending, lastHeard>>

-----------------------------------------------------------------------------
(* The link and the clock. *)

Drains ==
    /\ sending /\ depth > 0
    /\ depth' = depth - 1
    /\ UNCHANGED <<conn, delay, connected, lastSent, sending, lastHeard>>

LinkDies ==
    /\ sending
    /\ sending' = FALSE
    /\ UNCHANGED <<conn, delay, connected, lastSent, depth, lastHeard>>

Older(n) == IF n < Long THEN n + 1 ELSE n

TimePasses ==
    /\ conn' = [s \in Sources |-> IF conn[s].at = "putting"
                                  THEN [conn[s] EXCEPT !.age = Older(conn[s].age)]
                                  ELSE conn[s]]
    /\ lastSent' = [v \in Vessels |-> Older(lastSent[v])]
    /\ lastHeard' = [v \in Vessels |-> Older(lastHeard[v])]
    /\ UNCHANGED <<delay, connected, depth, sending>>

AisNext ==
    \/ \E s \in Sources :
         \/ Opens(s) \/ Breaks(s) \/ Ends(s) \/ Reconnects(s) \/ Puts(s)
         \/ \E v \in Vessels : Hears(s, v)
    \/ Drains
    \/ LinkDies
    \/ TimePasses

\* The queue wakes its putters in the order they came, a TX worker that is
\* alive sends, time passes; and a source that listens again and again hears a
\* vessel in its box that keeps reporting.
AisFairness ==
    /\ \A s \in Boxed : /\ SF_aisVars(Puts(s))
                        /\ \A v \in Covers[s] : SF_aisVars(Hears(s, v))
    /\ WF_aisVars(Drains)
    /\ WF_aisVars(TimePasses)

AisSpec == AisInit /\ [][AisNext]_aisVars

AisFairSpec == AisSpec /\ AisFairness

-----------------------------------------------------------------------------
(* Properties. *)

\* Types of the loops, the throttle and the queue; the pause stays in its range.
AisTypeOK ==
    /\ conn \in [Sources -> [at : {"connecting", "listening", "putting", "pausing"},
                             vessel : Vessels \cup {None}, age : 0..Long]]
    /\ \A s \in Sources : conn[s].vessel # None <=> conn[s].at = "putting"
    /\ delay \in [Sources -> Base..Most]
    /\ connected \subseteq {Name[s] : s \in Sources}
    /\ lastSent \in [Vessels -> 0..Long]
    /\ lastHeard \in [Vessels -> 0..Long]
    /\ depth \in 0..QueueSize
    /\ sending \in BOOLEAN

\* A source with a name of its own that is receiving is shown as connected,
\* whoever waits in a put, breaks or ends meanwhile.  (The converse does not
\* hold: a stream that ended cleanly leaves the flag set.)
LiveIsShown ==
    \A s \in Sources :
        /\ conn[s].at \in {"listening", "putting"}
        /\ \A t \in Sources \ {s} : Name[t] # Name[s]
        => Name[s] \in connected

\* worker.py:58-60: a vessel in the box of one source only is re-emitted an
\* interval of that source after its last event at the earliest, by the times
\* of the messages, though the time of a message is written only after its put,
\* which may wait, and the loop may have broken and reconnected in between.
Throttled ==
    [][\A s \in Sources : \A v \in Covers[s] :
          /\ \A t \in Sources \ {s} : v \notin Covers[t]
          /\ lastHeard'[v] = 0 /\ lastHeard[v] # 0
          => lastHeard[v] >= Interval[s]]_aisVars

\* worker.py:58-60, README.md:174-176: the throttle thins out the events of a
\* vessel but never silences it.  As long as one source that covers it listens
\* again and again and the link takes events, its events go on, whatever becomes
\* of the other sources and whichever of them rewrites the time of the last one.
VesselsGoOn ==
    \A s \in Sources : \A v \in Covers[s] :
        []<>(conn[s].at = "listening") => []<>(lastHeard[v] = 0 \/ ~sending)

=============================================================================
