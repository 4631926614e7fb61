------------------------------ MODULE AisProofs ------------------------------
(***************************************************************************)
(* Proofs about AisWorker, for every set of sources, boxes, intervals and  *)
(* queue sizes.  The invariant behind Throttled says where the time of the *)
(* last event of a vessel is: in _last_sent, or on its way there with the  *)
(* put of the one source that covers the vessel.                           *)
(***************************************************************************)
EXTENDS AisWorker, TLAPS

Loops == [at : {"connecting", "listening", "putting", "pausing"},
          vessel : Vessels \cup {None}, age : 0..Long]

\* s is the only source that covers v
Sole(s, v) == v \in Covers[s] /\ \A t \in Sources \ {s} : v \notin Covers[t]

OwnVessel == \A s \in Sources : conn[s].vessel # None => conn[s].vessel \in Covers[s]

Stamped ==
    \A s \in Sources : \A v \in Vessels :
        Sole(s, v) => IF conn[s].vessel = v THEN conn[s].age = lastHeard[v]
                      ELSE lastSent[v] = lastHeard[v]

Timed == AisTypeOK /\ OwnVessel /\ Stamped

-----------------------------------------------------------------------------
(* Types. *)

\* An age that grows stays in its range.
LEMMA OlderType ==
    ASSUME NEW n \in 0..Long
    PROVE  Older(n) \in 0..Long
  BY AisAssumption DEF Older

\* The pause after a pause stays in its range.
LEMMA DoubledType ==
    ASSUME NEW d \in Base..Most
    PROVE  Doubled(d) \in Base..Most
  BY AisAssumption DEF Doubled

\* A loop that is not putting.
LEMMA LoopType ==
    ASSUME NEW at \in {"connecting", "listening", "pausing"}
    PROVE  Loop(at) \in Loops /\ Loop(at).vessel = None /\ Loop(at).at = at
  BY AisAssumption DEF Loop, Loops

\* The types hold at the start.
LEMMA TypeInit == AisInit => AisTypeOK
<1> SUFFICES ASSUME AisInit PROVE AisTypeOK
  OBVIOUS
<1> USE AisAssumption DEF AisInit
<1>1. Loop("connecting") \in Loops /\ Loop("connecting").vessel = None
        /\ Loop("connecting").at = "connecting"
  BY LoopType
<1>2. /\ conn \in [Sources -> Loops]
      /\ \A s \in Sources : conn[s].vessel # None <=> conn[s].at = "putting"
  BY <1>1
<1>3. /\ delay \in [Sources -> Base..Most]
      /\ lastSent \in [Vessels -> 0..Long] /\ lastHeard \in [Vessels -> 0..Long]
  OBVIOUS
<1> QED
  BY <1>2, <1>3 DEF AisTypeOK, Loops

\* Every step keeps the types.
LEMMA TypeNext == AisTypeOK /\ [AisNext]_aisVars => AisTypeOK'
<1> SUFFICES ASSUME AisTypeOK, [AisNext]_aisVars PROVE AisTypeOK'
  OBVIOUS
<1> USE AisAssumption
<1>0. conn \in [Sources -> Loops]
  BY DEF AisTypeOK, Loops
<1>1. ASSUME NEW s \in Sources, Opens(s) PROVE AisTypeOK'
  <2>1. Loop("listening") \in Loops /\ Loop("listening").vessel = None
          /\ Loop("listening").at = "listening"
    BY LoopType
  <2> QED
    BY <1>0, <1>1, <2>1 DEF Opens, AisTypeOK, Loops
<1>2. ASSUME NEW s \in Sources, Breaks(s) \/ Ends(s) PROVE AisTypeOK'
  <2>1. Loop("pausing") \in Loops /\ Loop("pausing").vessel = None
          /\ Loop("pausing").at = "pausing"
    BY LoopType
  <2> QED
    BY <1>0, <1>2, <2>1 DEF Breaks, Ends, Pauses, AisTypeOK, Loops
<1>3. ASSUME NEW s \in Sources, Reconnects(s) PROVE AisTypeOK'
  <2>1. Loop("connecting") \in Loops /\ Loop("connecting").vessel = None
          /\ Loop("connecting").at = "connecting"
    BY LoopType
  <2>2. Doubled(delay[s]) \in Base..Most
    BY DoubledType DEF AisTypeOK
  <2> QED
    BY <1>0, <1>3, <2>1, <2>2 DEF Reconnects, AisTypeOK, Loops
<1>4. ASSUME NEW s \in Sources, NEW v \in Vessels, Hears(s, v) PROVE AisTypeOK'
  <2> DEFINE waiting == [at |-> "putting", vessel |-> v, age |-> 0]
  <2>1. waiting \in Loops /\ waiting.vessel = v /\ waiting.at = "putting" /\ v # None
    BY DEF Loops
  <2>2. conn' = conn \/ conn' = [conn EXCEPT ![s] = waiting]
    BY <1>4 DEF Hears
  <2>3. /\ conn' \in [Sources -> Loops]
        /\ \A t \in Sources : conn'[t].vessel # None <=> conn'[t].at = "putting"
    BY <1>0, <2>1, <2>2 DEF AisTypeOK
  <2>4. /\ lastHeard' \in [Vessels -> 0..Long]
        /\ lastSent' \in [Vessels -> 0..Long]
        /\ depth' \in 0..QueueSize
    BY <1>4 DEF Hears, Put, AisTypeOK
  <2>5. UNCHANGED <<delay, connected, sending>>
    BY <1>4 DEF Hears
  <2> QED
    BY <2>3, <2>4, <2>5 DEF AisTypeOK, Loops
<1>5. ASSUME NEW s \in Sources, Puts(s) PROVE AisTypeOK'
  <2>1. Loop("listening") \in Loops /\ Loop("listening").vessel = None
          /\ Loop("listening").at = "listening"
    BY LoopType
  <2>2. conn[s].vessel \in Vessels /\ conn[s].age \in 0..Long
    BY <1>0, <1>5 DEF Puts, AisTypeOK, Loops
  <2>3. lastSent' \in [Vessels -> 0..Long] /\ depth' \in 0..QueueSize
    BY <1>5, <2>2 DEF Puts, Put, AisTypeOK
  <2>4. /\ conn' \in [Sources -> Loops]
        /\ \A t \in Sources : conn'[t].vessel # None <=> conn'[t].at = "putting"
    BY <1>0, <1>5, <2>1 DEF Puts, AisTypeOK
  <2>5. UNCHANGED <<delay, connected, sending, lastHeard>>
    BY <1>5 DEF Puts
  <2> QED
    BY <2>3, <2>4, <2>5 DEF AisTypeOK, Loops
<1>6. ASSUME Drains \/ LinkDies PROVE AisTypeOK'
  <2>1. depth' \in 0..QueueSize
    BY <1>6 DEF Drains, LinkDies, AisTypeOK
  <2>2. sending' \in BOOLEAN
    BY <1>6 DEF Drains, LinkDies, AisTypeOK
  <2>3. UNCHANGED <<conn, delay, connected, lastSent, lastHeard>>
    BY <1>6 DEF Drains, LinkDies
  <2> QED
    BY <2>1, <2>2, <2>3 DEF AisTypeOK
<1>7. ASSUME TimePasses PROVE AisTypeOK'
  <2>1. \A t \in Sources :
          /\ conn'[t] \in Loops /\ conn'[t].vessel = conn[t].vessel
          /\ conn'[t].at = conn[t].at
    BY <1>0, <1>7, OlderType DEF TimePasses, Loops
  <2>2. conn' \in [Sources -> Loops]
    BY <1>7, <2>1 DEF TimePasses
  <2>3. lastSent' \in [Vessels -> 0..Long] /\ lastHeard' \in [Vessels -> 0..Long]
    BY <1>7, OlderType DEF TimePasses, AisTypeOK
  <2>4. UNCHANGED <<delay, connected, depth, sending>>
    BY <1>7 DEF TimePasses
  <2> QED
    BY <2>1, <2>2, <2>3, <2>4 DEF AisTypeOK, Loops
<1>8. ASSUME UNCHANGED aisVars PROVE AisTypeOK'
  BY <1>8 DEF aisVars, AisTypeOK
<1> QED
  BY <1>1, <1>2, <1>3, <1>4, <1>5, <1>6, <1>7, <1>8 DEF AisNext

\* Types of the loops, the throttle and the queue; a pause never exceeds
\* _RECONNECT_MAX (worker.py:129).
THEOREM AisTypeCorrect == AisSpec => []AisTypeOK
  BY TypeInit, TypeNext, PTL DEF AisSpec

-----------------------------------------------------------------------------
(* The connected flag. *)

\* A source that receives, with a name of its own, is shown as connected
\* (worker.py:126 and 172).
THEOREM LiveShown == AisSpec => []LiveIsShown
<1>1. AisInit => LiveIsShown
  <2> SUFFICES ASSUME AisInit, NEW s \in Sources
               PROVE  conn[s].at \notin {"listening", "putting"}
    BY DEF LiveIsShown
  <2> QED
    BY DEF AisInit, Loop
<1>2. AisTypeOK /\ LiveIsShown /\ [AisNext]_aisVars => LiveIsShown'
  <2> SUFFICES ASSUME AisTypeOK, LiveIsShown, [AisNext]_aisVars,
                      NEW s \in Sources,
                      conn'[s].at \in {"listening", "putting"},
                      \A t \in Sources \ {s} : Name[t] # Name[s]
               PROVE  Name[s] \in connected'
    BY DEF LiveIsShown
  <2>0. /\ conn \in [Sources -> Loops]
        /\ conn[s].at \in {"listening", "putting"} => Name[s] \in connected
    BY DEF AisTypeOK, Loops, LiveIsShown
  <2>1. ASSUME NEW t \in Sources, Opens(t) PROVE Name[s] \in connected'
    BY <2>0, <2>1 DEF Opens
  <2>2. ASSUME NEW t \in Sources, Breaks(t) PROVE Name[s] \in connected'
    <3>1. s # t
      BY <2>0, <2>2 DEF Breaks, Pauses, Loop
    <3> QED
      BY <2>0, <2>2, <3>1 DEF Breaks, Pauses
  <2>3. ASSUME NEW t \in Sources, Ends(t) \/ Reconnects(t)
        PROVE  Name[s] \in connected'
    BY <2>0, <2>3 DEF Ends, Reconnects, Pauses, Loop
  <2>4. ASSUME NEW t \in Sources, NEW v \in Vessels, Hears(t, v)
        PROVE  Name[s] \in connected'
    BY <2>0, <2>4 DEF Hears
  <2>5. ASSUME NEW t \in Sources, Puts(t) PROVE Name[s] \in connected'
    BY <2>0, <2>5 DEF Puts, Put
  <2>6. ASSUME TimePasses PROVE Name[s] \in connected'
    <3>1. conn'[s].at = conn[s].at
      BY <2>0, <2>6 DEF TimePasses, Loops
    <3> QED
      BY <2>0, <2>6, <3>1 DEF TimePasses
  <2>7. ASSUME Drains \/ LinkDies \/ UNCHANGED aisVars
        PROVE  Name[s] \in connected'
    BY <2>0, <2>7 DEF Drains, LinkDies, aisVars
  <2> QED
    BY <2>1, <2>2, <2>3, <2>4, <2>5, <2>6, <2>7 DEF AisNext
<1> QED
  BY <1>1, <1>2, AisTypeCorrect, PTL DEF AisSpec

-----------------------------------------------------------------------------
(* The throttle. *)

\* At the start no vessel was heard of.
LEMMA TimedInit == AisInit => Timed
<1> SUFFICES ASSUME AisInit PROVE OwnVessel /\ Stamped
  BY TypeInit DEF Timed
<1>1. \A s \in Sources : conn[s].vessel = None
  BY DEF AisInit, Loop
<1>2. \A v \in Vessels : lastSent[v] = lastHeard[v] /\ v # None
  BY AisAssumption DEF AisInit
<1> QED
  BY <1>1, <1>2 DEF OwnVessel, Stamped

\* Every step keeps the time of a message where its loop is.
LEMMA TimedNext == Timed /\ [AisNext]_aisVars => Timed'
<1> SUFFICES ASSUME Timed, [AisNext]_aisVars PROVE OwnVessel' /\ Stamped'
  BY TypeNext DEF Timed
<1> USE AisAssumption
<1>0. /\ conn \in [Sources -> Loops]
      /\ \A s \in Sources : conn[s].vessel # None <=> conn[s].at = "putting"
      /\ lastSent \in [Vessels -> 0..Long] /\ lastHeard \in [Vessels -> 0..Long]
      /\ OwnVessel /\ Stamped
  BY DEF Timed, AisTypeOK, Loops
<1>1. ASSUME UNCHANGED <<lastSent, lastHeard>>,
             \A s \in Sources : /\ conn'[s].vessel = conn[s].vessel
                               /\ conn'[s].age = conn[s].age
      PROVE  OwnVessel' /\ Stamped'
  BY <1>0, <1>1 DEF OwnVessel, Stamped, Sole
<1>2. ASSUME NEW s \in Sources, NEW at \in {"connecting", "listening", "pausing"},
             conn[s].at # "putting", conn' = [conn EXCEPT ![s] = Loop(at)],
             UNCHANGED <<lastSent, lastHeard>>
      PROVE  OwnVessel' /\ Stamped'
  <2>1. conn[s].vessel = None /\ conn'[s].vessel = None
    BY <1>0, <1>2 DEF Loop
  <2>2. \A t \in Sources \ {s} : conn'[t] = conn[t]
    BY <1>0, <1>2
  <2> QED
    BY <1>0, <1>2, <2>1, <2>2 DEF OwnVessel, Stamped, Sole
<1>3. ASSUME NEW s \in Sources,
             Opens(s) \/ Breaks(s) \/ Ends(s) \/ Reconnects(s)
      PROVE  OwnVessel' /\ Stamped'
  BY <1>2, <1>3 DEF Opens, Breaks, Ends, Reconnects, Pauses
<1>4. ASSUME NEW s \in Sources, NEW v \in Vessels, Hears(s, v)
      PROVE  OwnVessel' /\ Stamped'
  <2>1. /\ v \in Covers[s] /\ conn[s].vessel = None
        /\ lastHeard' = [lastHeard EXCEPT ![v] = 0]
    BY <1>0, <1>4 DEF Hears
  <2>2. CASE Put(v, 0) /\ UNCHANGED conn
    <3>1. lastSent' = [lastSent EXCEPT ![v] = 0]
      BY <2>2 DEF Put
    <3>2. \A t \in Sources : Sole(t, v) => conn[t].vessel # v
      BY <1>0, <2>1 DEF Sole, OwnVessel
    <3> QED
      BY <1>0, <2>1, <2>2, <3>1, <3>2 DEF OwnVessel, Stamped, Sole
  <2>3. CASE /\ conn' = [conn EXCEPT ![s] = [at |-> "putting", vessel |-> v, age |-> 0]]
             /\ UNCHANGED lastSent
    <3>1. conn'[s].vessel = v /\ conn'[s].age = 0
      BY <1>0, <2>3
    <3>2. \A t \in Sources \ {s} : conn'[t] = conn[t]
      BY <1>0, <2>3
    <3>3. OwnVessel'
      BY <1>0, <2>1, <3>1, <3>2 DEF OwnVessel
    <3>4. ASSUME NEW t \in Sources, NEW w \in Vessels, Sole(t, w)
          PROVE  IF conn'[t].vessel = w THEN conn'[t].age = lastHeard'[w]
                 ELSE lastSent'[w] = lastHeard'[w]
      BY <1>0, <2>1, <2>3, <3>1, <3>2, <3>4 DEF Stamped, Sole
    <3> QED
      BY <3>3, <3>4 DEF Stamped, Sole
  <2> QED
    BY <1>4, <2>2, <2>3 DEF Hears
<1>5. ASSUME NEW s \in Sources, Puts(s) PROVE OwnVessel' /\ Stamped'
  <2> DEFINE v == conn[s].vessel
  <2>1. v \in Vessels /\ v \in Covers[s]
    BY <1>0, <1>5 DEF Puts, OwnVessel, Loops
  <2>2. /\ lastSent' = [lastSent EXCEPT ![v] = conn[s].age]
        /\ UNCHANGED lastHeard
    BY <1>5 DEF Puts, Put
  <2>3. /\ conn'[s].vessel = None
        /\ \A t \in Sources \ {s} : conn'[t] = conn[t]
    BY <1>0, <1>5 DEF Puts, Loop
  <2>4. OwnVessel'
    BY <1>0, <2>3 DEF OwnVessel
  <2>5. ASSUME NEW t \in Sources, NEW w \in Vessels, Sole(t, w)
        PROVE  IF conn'[t].vessel = w THEN conn'[t].age = lastHeard'[w]
               ELSE lastSent'[w] = lastHeard'[w]
    <3>1. IF conn[t].vessel = w THEN conn[t].age = lastHeard[w]
          ELSE lastSent[w] = lastHeard[w]
      BY <1>0, <2>5 DEF Stamped
    <3>2. CASE t = s
      BY <1>0, <2>1, <2>2, <2>3, <3>1, <3>2
    <3>3. CASE t # s
      <4>1. w # v
        BY <2>1, <2>5, <3>3 DEF Sole
      <4> QED
        BY <1>0, <2>1, <2>2, <2>3, <3>1, <3>3, <4>1
    <3> QED
      BY <3>2, <3>3
  <2> QED
    BY <2>4, <2>5 DEF Stamped, Sole
<1>6. ASSUME TimePasses PROVE OwnVessel' /\ Stamped'
  <2>1. /\ lastSent' = [v \in Vessels |-> Older(lastSent[v])]
        /\ lastHeard' = [v \in Vessels |-> Older(lastHeard[v])]
    BY <1>6 DEF TimePasses
  <2>2. \A s \in Sources :
          /\ conn'[s].vessel = conn[s].vessel
          /\ conn[s].vessel # None => conn'[s].age = Older(conn[s].age)
    BY <1>0, <1>6 DEF TimePasses, Loops
  <2> QED
    BY <1>0, <2>1, <2>2 DEF OwnVessel, Stamped, Sole
<1>7. ASSUME Drains \/ LinkDies \/ UNCHANGED aisVars PROVE OwnVessel' /\ Stamped'
  <2>1. UNCHANGED <<conn, lastSent, lastHeard>>
    BY <1>7 DEF Drains, LinkDies, aisVars
  <2> QED
    BY <1>1, <2>1
<1> QED
  BY <1>3, <1>4, <1>5, <1>6, <1>7 DEF AisNext

\* A step that makes an event of a vessel of one source finds the interval over.
LEMMA ThrottledStep == Timed /\ [AisNext]_aisVars =>
    \A s \in Sources : \A v \in Covers[s] :
       /\ \A t \in Sources \ {s} : v \notin Covers[t]
       /\ lastHeard'[v] = 0 /\ lastHeard[v] # 0
       => lastHeard[v] >= Interval[s]
<1> SUFFICES ASSUME Timed, [AisNext]_aisVars,
                    NEW s \in Sources, NEW v \in Covers[s],
                    \A t \in Sources \ {s} : v \notin Covers[t],
                    lastHeard'[v] = 0, lastHeard[v] # 0
             PROVE  lastHeard[v] >= Interval[s]
  OBVIOUS
<1> USE AisAssumption
<1>0. /\ lastHeard \in [Vessels -> 0..Long] /\ v \in Vessels /\ v # None
      /\ \A t \in Sources : conn[t].vessel # None <=> conn[t].at = "putting"
      /\ Stamped
  BY DEF Timed, AisTypeOK
<1>1. lastHeard' # lastHeard
  OBVIOUS
<1>2. ~TimePasses
  <2> SUFFICES ASSUME TimePasses PROVE FALSE
    OBVIOUS
  <2>1. lastHeard'[v] = Older(lastHeard[v])
    BY <1>0 DEF TimePasses
  <2> QED
    BY <1>0, <2>1 DEF Older
<1>3. PICK t \in Sources, w \in Vessels : Hears(t, w)
  BY <1>1, <1>2 DEF AisNext, Opens, Breaks, Ends, Reconnects, Pauses, Puts,
                    Drains, LinkDies, aisVars
<1>4. w = v
  BY <1>0, <1>3 DEF Hears
<1>5. t = s
  BY <1>3, <1>4 DEF Hears
<1>6. conn[s].vessel = None
  BY <1>0, <1>3, <1>5 DEF Hears
<1>7. lastSent[v] = lastHeard[v]
  BY <1>0, <1>6 DEF Stamped, Sole
<1> QED
  BY <1>3, <1>4, <1>5, <1>7 DEF Hears

\* A vessel in the box of one source is re-emitted an interval after its last
\* event at the earliest (worker.py:58-60 and 271), though the time of a
\* message is written only after its put (worker.py:307-309).
THEOREM EventsAreThrottled == AisSpec => Throttled
<1>1. AisSpec => []Timed
  BY TimedInit, TimedNext, PTL DEF AisSpec
<1>2. Timed /\ [AisNext]_aisVars =>
      [\A s \in Sources : \A v \in Covers[s] :
          /\ \A t \in Sources \ {s} : v \notin Covers[t]
          /\ lastHeard'[v] = 0 /\ lastHeard[v] # 0
          => lastHeard[v] >= Interval[s]]_aisVars
  BY ThrottledStep
<1> QED
  BY <1>1, <1>2, PTL DEF AisSpec, Throttled

=============================================================================
