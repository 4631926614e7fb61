--------------------------- MODULE SyntheticWorker ---------------------------
(***************************************************************************)
(* One SyntheticWorker (app/enablements/synthetic/worker.py): the choice   *)
(* of the features of a tick and their puts, one after the other, on the   *)
(* bounded tx_queue.  A feature is its index; positions, jitter and the    *)
(* cadence in seconds are left out.                                        *)
(***************************************************************************)
EXTENDS Integers, Sequences

CONSTANTS
    FeatureCounts,  \* values of the columns feature_count and
    PerUpdates,     \* features_per_update, which nothing validates
    QueueSize,      \* capacity of tx_queue
    None

ASSUME SyntheticAssumption ==
    /\ FeatureCounts \cup PerUpdates \subseteq Int \cup {None}
    /\ QueueSize \in Nat \ {0}
    /\ None \notin Int

VARIABLES
    config,   \* self.config and what __init__ makes of its strategy
    at,       \* where run() is
    cursor,   \* self._cursor
    picked,   \* the features run() is going over
    done,     \* how many of them it has put
    depth,    \* tx_queue.qsize()
    sending,  \* the link's TX worker is alive
    lead      \* history, under round_robin: how many events a feature has had
              \* more than the feature with the fewest

synVars == <<config, at, cursor, picked, done, depth, sending, lead>>

Strategies == {"round_robin", "random", "zipf"}

-----------------------------------------------------------------------------
(* __init__ *)

\* max(1, int(x or default))
AtLeastOne(x, default) ==
    LET n == IF x \in {None, 0} THEN default ELSE x IN IF n < 1 THEN 1 ELSE n

N == AtLeastOne(config.feature_count, 100)

\* features_per_update is not clamped
K_slip == AtLeastOne(config.features_per_update, 1)

K == LET k == AtLeastOne(config.features_per_update, 1) IN IF k < N THEN k ELSE N

Features == 0..(N - 1)

SynInit ==
    /\ config \in [feature_count : FeatureCounts, features_per_update : PerUpdates,
                   strategy : Strategies, seed_initial : BOOLEAN]
    /\ at = "created"
    /\ cursor = 0
    /\ picked = <<>>
    /\ done = 0
    /\ depth = 0
    /\ sending = TRUE
    /\ lead = [i \in Features |-> 0]

-----------------------------------------------------------------------------
(* run and _pick_indices *)

Starts ==
    /\ at = "created"
    /\ \/ /\ config.seed_initial
          /\ at' = "seeding"
          /\ picked' = [j \in 1..N |-> j - 1]
       \/ /\ ~config.seed_initial
          /\ at' = "waiting"
          /\ UNCHANGED picked
    /\ UNCHANGED <<config, cursor, done, depth, sending, lead>>

\* the index is not taken modulo N
Turn_slip == [j \in 1..K |-> cursor + j - 1]

Turn == [j \in 1..K |-> (cursor + j - 1) % N]

\* the cursor stays where it is
Advanced_slip == cursor

\* the cursor starts again from 0 when it runs over the end
Advanced_wrap_slip == IF cursor + K >= N THEN 0 ELSE cursor + K

Advanced == (cursor + K) % N

Distinct(idx) == \A j, k \in DOMAIN idx : j # k => idx[j] # idx[k]

\* a tick begins: _pick_indices
Ticks ==
    /\ at = "waiting"
    /\ at' = "emitting"
    /\ \/ /\ config.strategy = "round_robin"
          /\ picked' = Turn
          /\ cursor' = Advanced
       \/ /\ config.strategy = "random"
          /\ \E idx \in [1..K -> Features] : Distinct(idx) /\ picked' = idx
          /\ UNCHANGED cursor
       \/ /\ config.strategy = "zipf"
          /\ \E idx \in [1..K -> Features] : picked' = idx
          /\ UNCHANGED cursor
    /\ UNCHANGED <<config, done, depth, sending, lead>>

\* Bound of the model: a lead is counted up to LeadBound.
LeadBound == 2

\* the leads after one more event of feature i
Led(i) ==
    LET more == [lead EXCEPT ![i] = IF lead[i] < LeadBound THEN lead[i] + 1
                                    ELSE LeadBound] IN
    IF \A j \in Features : more[j] > 0
    THEN [j \in Features |-> more[j] - 1] ELSE more

\* await self.tx_queue.put(...) of the next one; after the last, the tick or
\* the seeding is over and run() sleeps out the tick
Emits ==
    LET last == done + 1 = Len(picked) IN
    /\ at \in {"seeding", "emitting"}
    /\ depth < QueueSize
    /\ depth' = depth + 1
    /\ lead' = IF config.strategy = "round_robin" THEN Led(picked[done + 1]) ELSE lead
    /\ at' = IF last THEN "waiting" ELSE at
    /\ done' = IF last THEN 0 ELSE done + 1
    /\ picked' = IF last THEN <<>> ELSE picked
    /\ UNCHANGED <<config, cursor, sending>>

-----------------------------------------------------------------------------
(* The link. *)

Drains ==
    /\ sending /\ depth > 0
    /\ depth' = depth - 1
    /\ UNCHANGED <<config, at, cursor, picked, done, sending, lead>>

LinkDies ==
    /\ sending
    /\ sending' = FALSE
    /\ UNCHANGED <<config, at, cursor, picked, done, depth, lead>>

SynNext == Starts \/ Ticks \/ Emits \/ Drains \/ LinkDies

SynSpec == SynInit /\ [][SynNext]_synVars

\* The event loop wakes run() when its sleep is over or the queue has room (no
\* other worker puts here), and a TX worker that is alive sends.
SynFairness == /\ WF_synVars(Starts)
               /\ WF_synVars(Ticks)
               /\ WF_synVars(Emits)
               /\ WF_synVars(Drains)

SynFairSpec == SynSpec /\ SynFairness

-----------------------------------------------------------------------------
(* Properties. *)

\* Types of the worker's fields; the indices picked are features.
SynTypeOK ==
    /\ config \in [feature_count : FeatureCounts, features_per_update : PerUpdates,
                   strategy : Strategies, seed_initial : BOOLEAN]
    /\ at \in {"created", "seeding", "waiting", "emitting"}
    /\ cursor \in Features
    /\ picked \in Seq(Features)
    /\ done \in 0..Len(picked)
    /\ depth \in 0..QueueSize
    /\ sending \in BOOLEAN
    /\ lead \in [Features -> 0..LeadBound]

\* worker.py:41 and 89: no feature is emitted twice in one tick, except by
\* zipf, whatever N and K the row has; nor in the seeding.
OnceInATick == config.strategy # "zipf" => Distinct(picked)

\* worker.py:12: under round_robin every feature has its turn once in N
\* events, across ticks and after the seeding as well, also where K does not
\* divide N: no feature is ever more than one event ahead of another.
Balanced == config.strategy = "round_robin" => \A i \in Features : lead[i] <= 1

\* ... and while the link takes events round follows round, so that each of
\* them is refreshed over and over.
RoundEnds == depth' > depth /\ \A i \in Features : lead'[i] = 0

RoundsGoOn ==
    \/ []<>(~sending \/ config.strategy # "round_robin")
    \/ []<><<RoundEnds>>_synVars

=============================================================================
