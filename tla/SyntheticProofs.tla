--------------------------- MODULE SyntheticProofs ---------------------------
(***************************************************************************)
(* Proofs about SyntheticWorker, for every N, K and queue size.  The       *)
(* invariant behind Balanced says where the round is: the features before  *)
(* the next one to be put are one event ahead, the others are not.         *)
(***************************************************************************)
EXTENDS SyntheticWorker, TLAPS

\* the leads when feature c is the next of its round
Round(c) == [i \in Features |-> IF i < c THEN 1 ELSE 0]

\* run() is at a put exactly while there is something left to put
AtPut == IF at \in {"seeding", "emitting"} THEN done < Len(picked)
         ELSE done = 0 /\ picked = <<>>

Typed == SynTypeOK /\ AtPut

\* what run() goes over, from feature b on, and the round's next feature
InTurn ==
    /\ at = "created" => cursor = 0 /\ lead = Round(0)
    /\ at = "seeding" => /\ cursor = 0 /\ lead = Round(done)
                         /\ picked = [j \in 1..N |-> j - 1]
    /\ at = "waiting" => lead = Round(cursor)
    /\ at = "emitting" => \E b \in Features :
         /\ cursor = (b + K) % N
         /\ picked = [j \in 1..K |-> (b + j - 1) % N]
         /\ lead = Round((b + done) % N)

TurnInv == Typed /\ (config.strategy = "round_robin" => InTurn)

-----------------------------------------------------------------------------
(* Arithmetic. *)

\* d places on from place c in a circle of n.
LEMMA Wrap ==
    ASSUME NEW n \in Nat \ {0}, NEW c \in 0..(n - 1), NEW d \in 0..n
    PROVE  (c + d) % n = IF c + d < n THEN c + d ELSE c + d - n
  OBVIOUS

\* Two places less than a round apart differ.
LEMMA WrapDistinct ==
    ASSUME NEW n \in Nat \ {0}, NEW c \in 0..(n - 1),
           NEW j \in 1..n, NEW k \in 1..n, j # k
    PROVE  (c + j - 1) % n # (c + k - 1) % n
<1>1. c + j - 1 = c + (j - 1) /\ c + k - 1 = c + (k - 1)
  OBVIOUS
<1>2. j - 1 \in 0..n /\ k - 1 \in 0..n
  OBVIOUS
<1>3. /\ (c + (j - 1)) % n = IF c + (j - 1) < n THEN c + (j - 1) ELSE c + (j - 1) - n
      /\ (c + (k - 1)) % n = IF c + (k - 1) < n THEN c + (k - 1) ELSE c + (k - 1) - n
  BY <1>2, Wrap
<1> QED
  BY <1>1, <1>3

\* The place after the one d places on.
LEMMA WrapNext ==
    ASSUME NEW n \in Nat \ {0}, NEW c \in 0..(n - 1), NEW d \in 0..(n - 1)
    PROVE  /\ (c + d) % n \in 0..(n - 1)
           /\ (c + d + 1) % n = IF ((c + d) % n) + 1 = n THEN 0 ELSE ((c + d) % n) + 1
<1>1. d \in 0..n /\ d + 1 \in 0..n
  OBVIOUS
<1>2. (c + d) % n = IF c + d < n THEN c + d ELSE c + d - n
  BY <1>1, Wrap
<1>3. (c + (d + 1)) % n = IF c + (d + 1) < n THEN c + (d + 1) ELSE c + (d + 1) - n
  BY <1>1, Wrap
<1>4. c + d + 1 = c + (d + 1)
  OBVIOUS
<1> QED
  BY <1>2, <1>3, <1>4

\* The clamps of __init__: at least one feature, and 1 <= K <= N.
LEMMA Sizes ==
    ASSUME SynTypeOK
    PROVE  N \in Nat \ {0} /\ K \in Nat \ {0} /\ K <= N
<1> USE SyntheticAssumption
<1>1. /\ config.feature_count \in Int \cup {None}
      /\ config.features_per_update \in Int \cup {None}
  BY DEF SynTypeOK
<1>2. N \in Nat \ {0}
  BY <1>1 DEF N, AtLeastOne
<1>3. AtLeastOne(config.features_per_update, 1) \in Nat \ {0}
  BY <1>1 DEF AtLeastOne
<1> QED
  BY <1>2, <1>3 DEF K

-----------------------------------------------------------------------------
(* Types. *)

\* One more event keeps the leads leads.
LEMMA LedType ==
    ASSUME lead \in [Features -> 0..LeadBound], NEW i \in Features
    PROVE  Led(i) \in [Features -> 0..LeadBound]
<1> DEFINE more == [lead EXCEPT ![i] = IF lead[i] < LeadBound THEN lead[i] + 1
                                       ELSE LeadBound]
<1>1. more \in [Features -> 0..LeadBound]
  BY DEF LeadBound
<1>2. CASE \A j \in Features : more[j] > 0
  <2>1. Led(i) = [j \in Features |-> more[j] - 1]
    BY <1>2 DEF Led
  <2> QED
    BY <1>1, <1>2, <2>1 DEF LeadBound
<1>3. CASE ~ \A j \in Features : more[j] > 0
  BY <1>1, <1>3 DEF Led
<1> QED
  BY <1>2, <1>3

\* A turn of the round robin goes over features.
LEMMA TurnType ==
    ASSUME SynTypeOK
    PROVE  /\ Turn \in Seq(Features) /\ Len(Turn) = K
           /\ Advanced \in Features
<1>1. N \in Nat \ {0} /\ K \in Nat \ {0}
  BY Sizes
<1>2. cursor \in Nat
  BY <1>1 DEF SynTypeOK, Features
<1>3. \A a \in Nat : a % N \in Features
  BY <1>1 DEF Features
<1>4. Turn \in [1..K -> Features]
  BY <1>1, <1>2, <1>3 DEF Turn
<1>5. Turn \in Seq(Features) /\ Len(Turn) = K
  BY <1>1, <1>4
<1>6. Advanced \in Features
  <2>1. cursor + K \in Nat
    BY <1>1, <1>2
  <2> QED
    BY <1>3, <2>1 DEF Advanced
<1> QED
  BY <1>5, <1>6

LEMMA TypedInit == SynInit => Typed
<1> SUFFICES ASSUME SynInit PROVE Typed
  OBVIOUS
<1> USE SyntheticAssumption
<1>1. config.feature_count \in Int \cup {None}
  BY DEF SynInit
<1>2. N \in Nat \ {0}
  BY <1>1 DEF N, AtLeastOne
<1>3. 0 \in Features
  BY <1>2 DEF Features
<1>4. SynTypeOK
  BY <1>3 DEF SynInit, SynTypeOK, LeadBound
<1> QED
  BY <1>4 DEF SynInit, Typed, AtPut

LEMMA TypedNext == Typed /\ [SynNext]_synVars => Typed'
<1> SUFFICES ASSUME Typed, [SynNext]_synVars PROVE Typed'
  OBVIOUS
<1> USE SyntheticAssumption
<1>1. N \in Nat \ {0} /\ K \in Nat \ {0} /\ K <= N
  BY Sizes DEF Typed
<1>2. config' = config
  BY DEF SynNext, Starts, Ticks, Emits, Drains, LinkDies, synVars
<1>3. N' = N /\ Features' = Features
  BY <1>2 DEF N, Features
<1>4. CASE Starts
  <2>1. CASE config.seed_initial
    <3>1. picked' \in [1..N -> Features] /\ at' = "seeding"
      BY <1>1, <1>4, <2>1 DEF Starts, Features
    <3>2. picked' \in Seq(Features) /\ Len(picked') = N
      BY <1>1, <3>1
    <3> QED
      BY <1>1, <1>3, <1>4, <3>1, <3>2 DEF Starts, Typed, SynTypeOK, AtPut
  <2>2. CASE ~config.seed_initial
    BY <1>3, <1>4, <2>2 DEF Starts, Typed, SynTypeOK, AtPut
  <2> QED
    BY <2>1, <2>2
<1>5. CASE Ticks
  <2>1. /\ picked' \in Seq(Features) /\ Len(picked') = K
        /\ cursor' \in Features
    <3>1. CASE config.strategy = "round_robin"
      BY <1>5, <3>1, TurnType DEF Ticks, Typed
    <3>2. CASE config.strategy # "round_robin"
      <4>1. picked' \in [1..K -> Features] /\ cursor' = cursor
        BY <1>5, <3>2 DEF Ticks
      <4> QED
        BY <1>1, <4>1 DEF Typed, SynTypeOK
    <3> QED
      BY <3>1, <3>2
  <2> QED
    BY <1>1, <1>3, <1>5, <2>1 DEF Ticks, Typed, SynTypeOK, AtPut
<1>6. CASE Emits
  <2>1. done < Len(picked)
    BY <1>6 DEF Emits, Typed, AtPut
  <2>2. picked[done + 1] \in Features
    BY <2>1 DEF Typed, SynTypeOK
  <2>3. lead' \in [Features -> 0..LeadBound]
    BY <1>6, <2>2, LedType DEF Emits, Typed, SynTypeOK
  <2>4. CASE done + 1 = Len(picked)
    BY <1>3, <1>6, <2>3, <2>4 DEF Emits, Typed, SynTypeOK, AtPut
  <2>5. CASE done + 1 # Len(picked)
    BY <1>3, <1>6, <2>1, <2>3, <2>5 DEF Emits, Typed, SynTypeOK, AtPut
  <2> QED
    BY <2>4, <2>5
<1>7. CASE Drains
  BY <1>3, <1>7 DEF Drains, Typed, SynTypeOK, AtPut
<1>8. CASE LinkDies
  BY <1>3, <1>8 DEF LinkDies, Typed, SynTypeOK, AtPut
<1>9. CASE UNCHANGED synVars
  BY <1>3, <1>9 DEF synVars, Typed, SynTypeOK, AtPut
<1> QED
  BY <1>4, <1>5, <1>6, <1>7, <1>8, <1>9 DEF SynNext

\* The worker's fields keep their types, for every row of the table and every
\* capacity of the queue (worker.py:38-42, 83-92).
THEOREM SynTypeCorrect == SynSpec => []SynTypeOK
<1>1. Typed => SynTypeOK
  BY DEF Typed
<1> QED
  BY <1>1, TypedInit, TypedNext, PTL DEF SynSpec

-----------------------------------------------------------------------------
(* No feature twice in a tick. *)

\* A turn of K <= N features does not come back to its first.
LEMMA TurnDistinct ==
    ASSUME SynTypeOK
    PROVE  Distinct(Turn)
<1>1. N \in Nat \ {0} /\ K \in Nat \ {0} /\ K <= N
  BY Sizes
<1>2. cursor \in 0..(N - 1)
  BY DEF SynTypeOK, Features
<1> SUFFICES ASSUME NEW j \in 1..K, NEW k \in 1..K, j # k
             PROVE  (cursor + j - 1) % N # (cursor + k - 1) % N
  BY DEF Distinct, Turn
<1> QED
  BY <1>1, <1>2, WrapDistinct

Once == Typed /\ OnceInATick

LEMMA OnceInit == SynInit => Once
<1> SUFFICES ASSUME SynInit PROVE OnceInATick
  BY TypedInit DEF Once
<1> QED
  BY DEF SynInit, OnceInATick, Distinct

LEMMA OnceNext == Once /\ [SynNext]_synVars => Once'
<1> SUFFICES ASSUME Once, [SynNext]_synVars PROVE OnceInATick'
  BY TypedNext DEF Once
<1>1. config' = config
  BY DEF SynNext, Starts, Ticks, Emits, Drains, LinkDies, synVars
<1>2. Distinct(picked) \/ config.strategy = "zipf"
  BY DEF Once, OnceInATick
<1>3. CASE Starts
  <2>1. CASE config.seed_initial
    <3>1. picked' = [j \in 1..N |-> j - 1] /\ N \in Nat
      BY <1>3, <2>1, Sizes DEF Starts, Once, Typed
    <3> QED
      BY <3>1 DEF OnceInATick, Distinct
  <2>2. CASE ~config.seed_initial
    BY <1>1, <1>2, <1>3, <2>2 DEF Starts, OnceInATick, Distinct
  <2> QED
    BY <2>1, <2>2
<1>4. CASE Ticks
  <2>1. CASE config.strategy = "round_robin"
    <3>1. picked' = Turn /\ Distinct(Turn)
      BY <1>4, <2>1, TurnDistinct DEF Ticks, Once, Typed
    <3> QED
      BY <3>1 DEF OnceInATick, Distinct
  <2>2. CASE config.strategy = "random"
    BY <1>4, <2>2 DEF Ticks, OnceInATick, Distinct
  <2>3. CASE config.strategy = "zipf"
    BY <1>1, <2>3 DEF OnceInATick
  <2> QED
    BY <2>1, <2>2, <2>3, <1>4 DEF Ticks
<1>5. CASE Emits
  <2>1. picked' = picked \/ picked' = <<>>
    BY <1>5 DEF Emits
  <2>2. Distinct(<<>>)
    BY DEF Distinct
  <2> QED
    BY <1>1, <1>2, <2>1, <2>2 DEF OnceInATick, Distinct
<1>6. CASE Drains \/ LinkDies \/ UNCHANGED synVars
  BY <1>1, <1>2, <1>6 DEF Drains, LinkDies, synVars, OnceInATick, Distinct
<1> QED
  BY <1>3, <1>4, <1>5, <1>6 DEF SynNext

\* No tick emits a feature twice, whatever N and K the row has: the clamp of K
\* to N is enough (worker.py:41-42).
THEOREM TicksRepeatNothing == SynSpec => []OnceInATick
<1>1. Once => OnceInATick
  BY DEF Once
<1> QED
  BY <1>1, OnceInit, OnceNext, PTL DEF SynSpec

-----------------------------------------------------------------------------
(* Every feature has its turn. *)

\* After an event of the next feature of the round, the one behind it is next.
LEMMA RoundGoesOn ==
    ASSUME N \in Nat \ {0}, NEW c \in Features, lead = Round(c)
    PROVE  Led(c) = Round(IF c + 1 = N THEN 0 ELSE c + 1)
<1> DEFINE more == [lead EXCEPT ![c] = IF lead[c] < LeadBound THEN lead[c] + 1
                                       ELSE LeadBound]
<1>1. more = [j \in Features |-> IF j <= c THEN 1 ELSE 0]
  BY DEF Round, LeadBound, Features
<1>2. CASE c + 1 = N
  <2>1. \A j \in Features : more[j] > 0
    BY <1>1, <1>2 DEF Features
  <2>2. Led(c) = [j \in Features |-> more[j] - 1]
    BY <2>1 DEF Led
  <2>3. \A j \in Features : more[j] - 1 = 0 /\ ~(j < 0)
    BY <1>1, <1>2 DEF Features
  <2> QED
    BY <1>2, <2>2, <2>3 DEF Round
<1>3. CASE c + 1 # N
  <2>1. c + 1 \in Features /\ ~(more[c + 1] > 0)
    BY <1>1, <1>3 DEF Features
  <2>2. Led(c) = more
    BY <2>1 DEF Led
  <2>3. \A j \in Features : j <= c <=> j < c + 1
    BY DEF Features
  <2> QED
    BY <1>1, <1>3, <2>2, <2>3 DEF Round
<1> QED
  BY <1>2, <1>3

LEMMA TurnInvInit == SynInit => TurnInv
<1> SUFFICES ASSUME SynInit PROVE InTurn
  BY TypedInit DEF TurnInv
<1>1. lead = Round(0)
  BY DEF SynInit, Round, Features
<1> QED
  BY <1>1 DEF SynInit, InTurn

\* A tick that is over is followed by nothing or by the rest of the turn.
LEMMA TurnInvNext == TurnInv /\ [SynNext]_synVars => TurnInv'
<1> SUFFICES ASSUME TurnInv, [SynNext]_synVars, config'.strategy = "round_robin"
             PROVE  InTurn'
  BY TypedNext DEF TurnInv
<1> USE SyntheticAssumption
<1>1. N \in Nat \ {0} /\ K \in Nat \ {0} /\ K <= N
  BY Sizes DEF TurnInv, Typed
<1>2. config' = config
  BY DEF SynNext, Starts, Ticks, Emits, Drains, LinkDies, synVars
<1>3. N' = N /\ K' = K /\ Features' = Features
  BY <1>2 DEF N, K, Features
<1>4. InTurn
  BY <1>2 DEF TurnInv
<1>5. \A c : Round(c)' = Round(c)
  BY <1>3 DEF Round
<1>6. CASE Starts
  BY <1>3, <1>4, <1>6 DEF Starts, InTurn, Round, TurnInv, Typed, AtPut
<1>7. CASE Ticks
  <2>1. /\ at = "waiting" /\ at' = "emitting"
        /\ picked' = Turn /\ cursor' = Advanced
        /\ UNCHANGED <<done, lead>>
    BY <1>2, <1>7 DEF Ticks
  <2>2. done = 0 /\ cursor \in Features /\ lead = Round(cursor)
    BY <1>4, <2>1 DEF InTurn, TurnInv, Typed, SynTypeOK, AtPut
  <2>3. (cursor + done) % N = cursor
    <3>1. 0 \in 0..N /\ cursor \in 0..(N - 1)
      BY <1>1, <2>2 DEF Features
    <3>2. (cursor + 0) % N = IF cursor + 0 < N THEN cursor + 0 ELSE cursor + 0 - N
      BY <1>1, <3>1, Wrap
    <3>3. cursor + 0 = cursor /\ cursor < N
      BY <1>1, <3>1
    <3>4. cursor + done = cursor + 0
      BY <2>2
    <3> QED
      BY <3>2, <3>3, <3>4
  <2> QED
    BY <1>3, <2>1, <2>2, <2>3 DEF InTurn, Turn, Advanced, Round
<1>8. CASE Emits
  <2>1. PICK c \in Features :
          /\ picked[done + 1] = c /\ lead = Round(c)
          /\ at = "seeding" => c = done
    <3>1. CASE at = "seeding"
      BY <1>1, <1>4, <1>8, <3>1 DEF Emits, InTurn, TurnInv, Typed, SynTypeOK, AtPut, Features
    <3>2. CASE at = "emitting"
      BY <1>1, <1>4, <1>8, <3>2, WrapNext DEF Emits, InTurn, TurnInv, Typed, SynTypeOK, AtPut, Features
    <3> QED
      BY <1>8, <3>1, <3>2 DEF Emits
  <2>2. lead' = Round(IF c + 1 = N THEN 0 ELSE c + 1)
    BY <1>1, <1>2, <1>8, <2>1, RoundGoesOn DEF Emits
  <2>3. CASE at = "seeding"
    BY <1>1, <1>3, <1>4, <1>8, <2>1, <2>2, <2>3 DEF Emits, InTurn, TurnInv, Typed, SynTypeOK, AtPut, Round
  <2>4. CASE at = "emitting"
    <3>1. PICK b \in Features : /\ cursor = (b + K) % N
                                /\ picked = [j \in 1..K |-> (b + j - 1) % N]
                                /\ lead = Round((b + done) % N)
      BY <1>4, <2>4 DEF InTurn
    <3>2. done \in 0..(K - 1) /\ Len(picked) = K
      BY <1>1, <2>4, <3>1 DEF TurnInv, Typed, SynTypeOK, AtPut
    <3>3. c = (b + done) % N
      BY <1>1, <2>1, <3>1, <3>2 DEF Features
    <3>4. /\ b \in 0..(N - 1) /\ done \in 0..(N - 1)
          /\ done + 1 \in Nat /\ b + done + 1 = b + (done + 1)
      BY <1>1, <3>2 DEF Features
    <3>5. (b + (done + 1)) % N = IF c + 1 = N THEN 0 ELSE c + 1
      BY <1>1, <3>3, <3>4, WrapNext
    <3>6. lead' = Round((b + (done + 1)) % N)
      BY <2>2, <3>5
    <3>7. CASE done + 1 = K
      <4>1. /\ at' = "waiting" /\ cursor' = cursor
            /\ cursor = (b + (done + 1)) % N
        BY <1>8, <2>4, <3>1, <3>2, <3>7 DEF Emits
      <4> QED
        BY <1>3, <3>6, <4>1 DEF InTurn, Round
    <3>8. CASE done + 1 # K
      <4>1. at' = "emitting" /\ cursor' = cursor /\ picked' = picked /\ done' = done + 1
        BY <1>8, <2>4, <3>2, <3>8 DEF Emits
      <4> QED
        BY <1>3, <3>1, <3>6, <4>1 DEF InTurn, Round
    <3> QED
      BY <3>7, <3>8
  <2> QED
    BY <1>8, <2>3, <2>4 DEF Emits
<1>9. CASE Drains \/ LinkDies \/ UNCHANGED synVars
  BY <1>3, <1>4, <1>9 DEF Drains, LinkDies, synVars, InTurn, Round
<1> QED
  BY <1>6, <1>7, <1>8, <1>9 DEF SynNext

\* Round robin is fair for every N and K: no feature is ever more than one event
\* ahead of another (worker.py:12, 84-87).
THEOREM RoundRobinIsFair == SynSpec => []Balanced
<1>1. TurnInv => Balanced
  <2> SUFFICES ASSUME TurnInv, config.strategy = "round_robin", NEW i \in Features
               PROVE  lead[i] <= 1
    BY DEF Balanced
  <2>1. \A c : Round(c)[i] <= 1
    BY DEF Round
  <2> QED
    BY <2>1 DEF TurnInv, InTurn, Typed, SynTypeOK
<1> QED
  BY <1>1, TurnInvInit, TurnInvNext, PTL DEF SynSpec
=============================================================================
