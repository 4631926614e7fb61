----------------------------- MODULE AdsbProofs -----------------------------
(***************************************************************************)
(* Theorems about AdsbWorker, for every set of sources, aircraft and       *)
(* reports, every band and every size.  The invariant says where a report  *)
(* is between the cache, which has it first, and the queue.                *)
(***************************************************************************)
EXTENDS AdsbWorker, SequenceTheorems, TLAPS

Loops == [at : {"sleeping", "queued", "fetching", "putting"},
          batch : SUBSET Reports, rest : SUBSET Reports]

\* A source waits for the semaphore once.
OnceInLine == \A i, j \in DOMAIN line : line[i] = line[j] => i = j

\* The cache goes by the aircraft of its entries.
Entries == \A a \in Aircraft : seen[a] # None => seen[a].aircraft = a

\* A poll puts events of what its source covers.
Held == \A s \in Sources : /\ \A r \in poll[s].batch : Sendable(r)
                           /\ \A r \in Pending(s) : r.aircraft \in Covers[s]

\* What the only source of an aircraft still has to put is the entry, which by
\* now can have been dropped.
Current ==
    \A s \in Sources, a \in Aircraft : Sole(s, a) =>
        \A r \in Pending(s) : r.aircraft = a => seen[a] \in {None, r}

Owing == \A a \in owed : Sendable(seen[a])

Banded == \A u \in DOMAIN shown : shown[u] # None => Sendable(shown[u])

Carried == AdsbTypeOK /\ OnceInLine /\ Entries /\ Held /\ Current /\ Owing /\ Banded

-----------------------------------------------------------------------------
(* Types. *)

\* The line of the semaphore, when s joins it.
LEMMA JoinsLine ==
    ASSUME line \in Seq(Sources), OnceInLine, NEW s \in Sources,
           line' = Append(line, s), \A i \in DOMAIN line : line[i] # s
    PROVE  /\ line' \in Seq(Sources) /\ OnceInLine'
           /\ {line'[i] : i \in DOMAIN line'} = {line[i] : i \in DOMAIN line} \cup {s}
<1>1. /\ line' \in Seq(Sources) /\ Len(line) \in Nat /\ Len(line') = Len(line) + 1
      /\ DOMAIN line = 1..Len(line) /\ DOMAIN line' = 1..Len(line')
      /\ \A i \in 1..Len(line) : line'[i] = line[i]
      /\ line'[Len(line) + 1] = s
  BY AppendProperties, LenProperties
<1>2. \A i \in DOMAIN line' : i \in DOMAIN line \/ i = Len(line) + 1
  BY <1>1
<1>3. \A i \in DOMAIN line : i \in DOMAIN line'
  BY <1>1
<1>4. Len(line) + 1 \in DOMAIN line'
  BY <1>1
<1>5. OnceInLine'
  BY <1>1, <1>2 DEF OnceInLine
<1> QED
  BY <1>1, <1>2, <1>3, <1>4, <1>5

\* ... and when the first leaves it.
LEMMA LeavesLine ==
    ASSUME line \in Seq(Sources), OnceInLine, line # <<>>, line' = Tail(line)
    PROVE  /\ Head(line) \in Sources
           /\ Head(line) \in {line[i] : i \in DOMAIN line}
           /\ line' \in Seq(Sources) /\ OnceInLine'
           /\ {line'[i] : i \in DOMAIN line'}
                = {line[i] : i \in DOMAIN line} \ {Head(line)}
<1>1. /\ Head(line) \in Sources /\ line' \in Seq(Sources)
      /\ Len(line) \in Nat \ {0} /\ Len(line') = Len(line) - 1
      /\ DOMAIN line = 1..Len(line) /\ DOMAIN line' = 1..Len(line')
      /\ \A i \in 1..Len(line') : line'[i] = line[i + 1]
      /\ Head(line) = line[1]
  BY HeadTailProperties, LenProperties, EmptySeq
<1>2. 1 \in DOMAIN line /\ \A i \in DOMAIN line' : i + 1 \in DOMAIN line /\ i + 1 # 1
  BY <1>1
<1>3. \A j \in DOMAIN line : j = 1 \/ (j - 1 \in DOMAIN line' /\ line[j] = line'[j - 1])
  BY <1>1
<1>4. OnceInLine'
  <2> SUFFICES ASSUME NEW i \in DOMAIN line', NEW j \in DOMAIN line', line'[i] = line'[j]
               PROVE  i = j
    BY DEF OnceInLine
  <2>1. i + 1 = j + 1
    BY <1>1, <1>2 DEF OnceInLine
  <2> QED
    BY <1>1, <2>1
<1>5. ASSUME NEW i \in DOMAIN line' PROVE line'[i] \in {line[k] : k \in DOMAIN line} \ {Head(line)}
  BY <1>1, <1>2 DEF OnceInLine
<1>6. ASSUME NEW k \in DOMAIN line, line[k] # Head(line) PROVE line[k] \in {line'[i] : i \in DOMAIN line'}
  BY <1>1, <1>3, <1>6
<1>7. {line'[i] : i \in DOMAIN line'} = {line[i] : i \in DOMAIN line} \ {Head(line)}
  BY <1>5, <1>6
<1> QED
  BY <1>1, <1>2, <1>4, <1>7

\* The semaphore is passed on, and what the polls hold stays.
LEMMA Releases ==
    ASSUME AdsbTypeOK, OnceInLine, NEW s \in Sources, poll[s].at = "putting",
           poll[s].batch = {}, poll[s].rest = {}, Release(s)
    PROVE  /\ poll' \in [Sources -> Loops] /\ line' \in Seq(Sources) /\ OnceInLine'
           /\ {line'[i] : i \in DOMAIN line'} = {t \in Sources : poll'[t].at = "queued"}
           /\ \A t \in Sources : poll'[t].batch = poll[t].batch /\ poll'[t].rest = poll[t].rest
           /\ \A t \in Sources : poll'[t].at # "putting" => Pending(t)' = {}
<1>1. /\ poll \in [Sources -> Loops] /\ line \in Seq(Sources)
      /\ {line[i] : i \in DOMAIN line} = {t \in Sources : poll[t].at = "queued"}
      /\ \A t \in Sources : poll[t].at # "putting" => poll[t].batch = {} /\ poll[t].rest = {}
  BY DEF AdsbTypeOK, Loops, Pending
<1>2. Asleep \in Loops /\ Asleep.at = "sleeping" /\ Asleep.batch = {} /\ Asleep.rest = {}
  BY DEF Asleep, Loops
<1>3. CASE line = <<>>
  <2>1. poll' = [poll EXCEPT ![s] = Asleep] /\ line' = line
    BY <1>3 DEF Release
  <2> QED
    BY <1>1, <1>2, <2>1 DEF OnceInLine, Pending
<1>4. CASE line # <<>>
  <2>1. line' = Tail(line) /\ poll' = [poll EXCEPT ![s] = Asleep, ![Head(line)].at = "fetching"]
    BY <1>4 DEF Release
  <2>2. PICK t : t = Head(line)
    OBVIOUS
  <2>3. /\ t \in Sources /\ poll[t].at = "queued"
        /\ line' \in Seq(Sources) /\ OnceInLine'
        /\ {line'[i] : i \in DOMAIN line'} = {line[i] : i \in DOMAIN line} \ {t}
    BY <1>1, <1>4, <2>1, <2>2, LeavesLine
  <2>4. PICK l : l = [poll[t] EXCEPT !.at = "fetching"]
    OBVIOUS
  <2>5. /\ l \in Loops /\ l.at = "fetching" /\ l.batch = {} /\ l.rest = {}
    BY <1>1, <2>3, <2>4 DEF Loops
  <2>6. poll' = [poll EXCEPT ![s] = Asleep, ![t] = l]
    BY <1>1, <2>1, <2>2, <2>3, <2>4
  <2>7. /\ poll'[s] = Asleep /\ poll'[t] = l /\ poll' \in [Sources -> Loops]
        /\ \A u \in Sources \ {s, t} : poll'[u] = poll[u]
    BY <1>1, <1>2, <2>3, <2>5, <2>6
  <2>8. {u \in Sources : poll'[u].at = "queued"} = {u \in Sources : poll[u].at = "queued"} \ {t}
    BY <1>2, <2>3, <2>5, <2>7
  <2>9. \A u \in Sources : poll'[u].batch = poll[u].batch /\ poll'[u].rest = poll[u].rest
    BY <1>1, <1>2, <2>3, <2>5, <2>7
  <2>10. \A u \in Sources : poll'[u].at # "putting" => Pending(u)' = {}
    BY <1>1, <1>2, <2>3, <2>5, <2>7 DEF Pending
  <2> QED
    BY <1>1, <2>3, <2>7, <2>8, <2>9, <2>10
<1> QED
  BY <1>3, <1>4

Structure == AdsbTypeOK /\ OnceInLine

\* What the other polls hold.
OthersHold(s) == \A t \in Sources \ {s} : /\ poll'[t].batch = poll[t].batch
                                          /\ poll'[t].rest = poll[t].rest

\* A step that moves no report.
Unmoved == /\ UNCHANGED <<seen, owed, shown>>
           /\ \A t \in Sources : poll'[t].batch = poll[t].batch /\ poll'[t].rest = poll[t].rest

\* s converts a batch: what makes no event is left out.
Taken(s) == /\ UNCHANGED <<seen, owed, shown>> /\ OthersHold(s)
            /\ Pending(s)' \subseteq Pending(s)
            /\ \A r \in Pending(s) : Sendable(r) => r \in Pending(s)'
            /\ \A r \in poll'[s].batch : Sendable(r)

LEMMA TypeParts ==
    ASSUME Structure
    PROVE  /\ poll \in [Sources -> Loops] /\ line \in Seq(Sources) /\ OnceInLine
           /\ {line[i] : i \in DOMAIN line} = {t \in Sources : poll[t].at = "queued"}
           /\ \A t \in Sources : poll[t].at # "putting" => poll[t].batch = {} /\ poll[t].rest = {}
           /\ \A t \in Sources : poll[t].batch \cup poll[t].rest \subseteq Reports
BY DEF Structure, AdsbTypeOK, Loops, Pending

LEMMA PollsStep ==
    ASSUME Structure, NEW s \in Sources, Polls(s)
    PROVE  Structure' /\ Unmoved
<1>1. /\ poll \in [Sources -> Loops] /\ line \in Seq(Sources) /\ OnceInLine
      /\ {line[i] : i \in DOMAIN line} = {t \in Sources : poll[t].at = "queued"}
      /\ \A t \in Sources : poll[t].at # "putting" => poll[t].batch = {} /\ poll[t].rest = {}
  BY TypeParts
<1>2. poll[s].at = "sleeping" /\ UNCHANGED <<seen, expired, depth, sending, owed, shown>>
  BY DEF Polls
<1>3. ASSUME NEW at \in {"fetching", "queued"}, poll' = [poll EXCEPT ![s].at = at]
      PROVE  /\ poll' \in [Sources -> Loops] /\ Unmoved
             /\ \A t \in Sources : poll'[t].at # "putting" => Pending(t)' = {}
             /\ {t \in Sources : poll'[t].at = "queued"}
                  = {t \in Sources : poll[t].at = "queued"} \cup IF at = "queued" THEN {s} ELSE {}
  <2>1. PICK l : l = [poll[s] EXCEPT !.at = at]
    OBVIOUS
  <2>2. l \in Loops /\ l.at = at /\ l.batch = poll[s].batch /\ l.rest = poll[s].rest
    BY <1>1, <2>1 DEF Loops
  <2>3. poll' = [poll EXCEPT ![s] = l]
    BY <1>3, <2>1
  <2> QED
    BY <1>1, <1>2, <2>2, <2>3 DEF Unmoved, Pending
<1>4. CASE poll' = [poll EXCEPT ![s].at = "fetching"] /\ UNCHANGED line
  <2>1. /\ poll' \in [Sources -> Loops] /\ Unmoved
        /\ \A t \in Sources : poll'[t].at # "putting" => Pending(t)' = {}
        /\ {t \in Sources : poll'[t].at = "queued"} = {t \in Sources : poll[t].at = "queued"}
    BY <1>3, <1>4
  <2>2. /\ line' \in Seq(Sources) /\ OnceInLine'
        /\ {line'[i] : i \in DOMAIN line'} = {t \in Sources : poll'[t].at = "queued"}
    BY <1>1, <1>4, <2>1 DEF OnceInLine
  <2> QED
    BY <1>2, <2>1, <2>2 DEF Structure, AdsbTypeOK, Loops, Seen
<1>5. CASE poll' = [poll EXCEPT ![s].at = "queued"] /\ line' = Append(line, s)
  <2>1. \A i \in DOMAIN line : line[i] # s
    BY <1>1, <1>2
  <2>2. /\ line' \in Seq(Sources) /\ OnceInLine'
        /\ {line'[i] : i \in DOMAIN line'} = {line[i] : i \in DOMAIN line} \cup {s}
    BY <1>1, <1>5, <2>1, JoinsLine
  <2>3. /\ poll' \in [Sources -> Loops] /\ Unmoved
        /\ \A t \in Sources : poll'[t].at # "putting" => Pending(t)' = {}
        /\ {t \in Sources : poll'[t].at = "queued"} = {t \in Sources : poll[t].at = "queued"} \cup {s}
    BY <1>3, <1>5
  <2> QED
    BY <1>1, <1>2, <2>2, <2>3 DEF Structure, AdsbTypeOK, Loops, Seen
<1> QED
  BY <1>4, <1>5 DEF Polls

LEMMA BatchStep ==
    ASSUME Structure, NEW s \in Sources, NextBatch(s)
    PROVE  Structure' /\ (Unmoved \/ Taken(s))
<1>1. /\ poll \in [Sources -> Loops] /\ line \in Seq(Sources) /\ OnceInLine
      /\ {line[i] : i \in DOMAIN line} = {t \in Sources : poll[t].at = "queued"}
      /\ \A t \in Sources : poll[t].at # "putting" => poll[t].batch = {} /\ poll[t].rest = {}
  BY TypeParts
<1>2. /\ poll[s].at = "putting" /\ poll[s].batch = {}
      /\ UNCHANGED <<seen, expired, depth, sending, owed, shown>>
  BY DEF NextBatch
<1>3. CASE poll[s].rest = {} /\ Release(s)
  <2>1. /\ poll' \in [Sources -> Loops] /\ line' \in Seq(Sources) /\ OnceInLine'
        /\ {line'[i] : i \in DOMAIN line'} = {t \in Sources : poll'[t].at = "queued"}
        /\ \A t \in Sources : poll'[t].batch = poll[t].batch /\ poll'[t].rest = poll[t].rest
        /\ \A t \in Sources : poll'[t].at # "putting" => Pending(t)' = {}
    BY <1>2, <1>3, Releases DEF Structure
  <2>2. Structure'
    BY <1>2, <2>1 DEF Structure, AdsbTypeOK, Loops, Seen
  <2> QED
    BY <1>2, <2>1, <2>2 DEF Unmoved
<1>4. ASSUME NEW now \in Batches(poll[s].rest), Takes(s, now)
      PROVE  Structure' /\ Taken(s)
  <2>1. now \subseteq poll[s].rest
    BY <1>4 DEF Batches, kSubset
  <2>2. PICK q : q = [poll[s] EXCEPT !.batch = Converted(now)]
    OBVIOUS
  <2>3. PICK l : l = [q EXCEPT !.rest = poll[s].rest \ now]
    OBVIOUS
  <2>4. Converted(now) \subseteq now /\ \A r \in now : r \in Converted(now) <=> Sendable(r)
    BY DEF Converted
  <2>5. q \in Loops /\ q.at = "putting" /\ q.batch = Converted(now) /\ q.rest = poll[s].rest
    BY <1>1, <1>2, <2>1, <2>2, <2>4 DEF Loops
  <2>6. l \in Loops /\ l.at = "putting" /\ l.batch = Converted(now) /\ l.rest = poll[s].rest \ now
    BY <2>3, <2>5 DEF Loops
  <2>7. poll' = [poll EXCEPT ![s] = l] /\ UNCHANGED line
    BY <1>4, <2>2, <2>3 DEF Takes
  <2>8. /\ poll'[s] = l /\ poll' \in [Sources -> Loops]
        /\ \A t \in Sources \ {s} : poll'[t] = poll[t]
    BY <1>1, <2>6, <2>7
  <2>9. Structure'
    BY <1>1, <1>2, <2>6, <2>7, <2>8 DEF Structure, AdsbTypeOK, Loops, OnceInLine, Seen, Pending
  <2>10. Taken(s)
    BY <1>2, <2>1, <2>4, <2>6, <2>8 DEF Taken, OthersHold, Pending
  <2> QED
    BY <2>9, <2>10
<1> QED
  BY <1>3, <1>4 DEF NextBatch

\* s has an event of r put.
Put(s, r) ==
    /\ UNCHANGED seen /\ OthersHold(s)
    /\ r \in poll[s].batch /\ r \in Reports
    /\ poll'[s].batch = poll[s].batch \ {r} /\ poll'[s].rest = poll[s].rest
    /\ shown' = [shown EXCEPT ![Uid(r)] = r]
    /\ owed' = IF seen[r.aircraft] = r THEN owed \ {r.aircraft} ELSE owed

LEMMA PutStep ==
    ASSUME Structure, NEW s \in Sources, Puts(s)
    PROVE  Structure' /\ \E r : Put(s, r)
<1>1. /\ poll \in [Sources -> Loops] /\ line \in Seq(Sources) /\ OnceInLine
      /\ {line[i] : i \in DOMAIN line} = {t \in Sources : poll[t].at = "queued"}
      /\ \A t \in Sources : poll[t].at # "putting" => poll[t].batch = {} /\ poll[t].rest = {}
      /\ \A t \in Sources : poll[t].batch \cup poll[t].rest \subseteq Reports
  BY TypeParts
<1>2. PICK r \in poll[s].batch :
         /\ poll' = [poll EXCEPT ![s].batch = @ \ {r}]
         /\ shown' = [shown EXCEPT ![Uid(r)] = r]
         /\ owed' = IF seen[r.aircraft] = r THEN owed \ {r.aircraft} ELSE owed
  BY DEF Puts
<1>3. /\ depth < QueueSize /\ depth' = depth + 1 /\ UNCHANGED <<line, seen, expired, sending>>
  BY DEF Puts, HasRoom
<1>4. PICK l : l = [poll[s] EXCEPT !.batch = poll[s].batch \ {r}]
  OBVIOUS
<1>5. /\ l \in Loops /\ l.at = poll[s].at /\ l.rest = poll[s].rest
      /\ l.batch = poll[s].batch \ {r}
  BY <1>1, <1>4 DEF Loops
<1>6. poll' = [poll EXCEPT ![s] = l]
  BY <1>1, <1>2, <1>4
<1>7. /\ poll'[s] = l /\ poll' \in [Sources -> Loops]
      /\ \A t \in Sources \ {s} : poll'[t] = poll[t]
      /\ {t \in Sources : poll'[t].at = "queued"} = {t \in Sources : poll[t].at = "queued"}
      /\ \A t \in Sources : poll'[t].at # "putting" => Pending(t)' = {}
  BY <1>1, <1>5, <1>6 DEF Pending
<1>8. shown' \in [Uids -> Reports \cup {None}]
  BY <1>1, <1>2 DEF Structure, AdsbTypeOK
<1>9. depth' \in 0..QueueSize
  BY <1>3, AdsbAssumption DEF Structure, AdsbTypeOK
<1>10. (expired \cup owed \subseteq Seen)'
  BY <1>2, <1>3 DEF Structure, AdsbTypeOK, Seen
<1>11. line' \in Seq(Sources) /\ {line'[i] : i \in DOMAIN line'} = {t \in Sources : poll'[t].at = "queued"}
  BY <1>1, <1>3, <1>7
<1>12. Structure'
  BY <1>1, <1>3, <1>7, <1>8, <1>9, <1>10, <1>11 DEF Structure, AdsbTypeOK, Loops, OnceInLine
<1>13. Put(s, r)
  BY <1>1, <1>2, <1>3, <1>5, <1>7 DEF Put, OthersHold
<1> QED
  BY <1>12, <1>13

\* s has found these news.
Finds(s, news) ==
    /\ UNCHANGED shown /\ OthersHold(s)
    /\ Pending(s) = {}
    /\ news \subseteq {r \in Reports : r.aircraft \in Covers[s]}
    /\ \A q, r \in news : q.aircraft = r.aircraft => q = r
    /\ poll'[s].batch = {} /\ poll'[s].rest \in {{}, news}
    /\ (\A r \in Reports : r.messages # Null) => poll'[s].rest = news
    /\ \A r \in news : seen'[r.aircraft] = r
    /\ \A a \in Aircraft : (\A r \in news : r.aircraft # a) =>
         /\ seen'[a] \in {None, seen[a]}
         /\ a \in owed' => a \in owed /\ seen'[a] # None
    /\ \A r \in news : r.aircraft \in owed' => Sendable(r)

LEMMA FetchedStep ==
    ASSUME Structure, Entries, NEW s \in Sources, Fetched(s)
    PROVE  Structure' /\ \E news : Finds(s, news)
<1>1. /\ poll \in [Sources -> Loops] /\ line \in Seq(Sources) /\ OnceInLine
      /\ {line[i] : i \in DOMAIN line} = {t \in Sources : poll[t].at = "queued"}
      /\ \A t \in Sources : poll[t].at # "putting" => poll[t].batch = {} /\ poll[t].rest = {}
  BY TypeParts
<1>2. /\ poll[s].at = "fetching" /\ UNCHANGED <<line, depth, sending, shown>>
      /\ \E reports \in Responses(s) : \E compared \in Compared(reports) :
         /\ seen' = Marked({r \in compared : IsNews(r)})
         /\ expired' = {a \in expired : Kept[a] # None}
                         \ {r.aircraft : r \in {r \in compared : IsNews(r)}}
         /\ owed' = {a \in owed : Kept[a] # None
                                  /\ a \notin {r.aircraft : r \in {r \in compared : IsNews(r)}}}
                      \cup {r.aircraft : r \in {x \in {r \in compared : IsNews(r)} : Sendable(x)}}
         /\ poll' = [poll EXCEPT ![s] =
              [at |-> "putting", batch |-> {},
               rest |-> IF compared = reports THEN {r \in compared : IsNews(r)} ELSE {}]]
  BY DEF Fetched
<1>3. PICK reports, compared, news :
         /\ reports \in Responses(s) /\ compared \in Compared(reports)
         /\ news = {r \in compared : IsNews(r)}
         /\ seen' = Marked(news)
         /\ expired' = {a \in expired : Kept[a] # None} \ {r.aircraft : r \in news}
         /\ owed' = {a \in owed : Kept[a] # None /\ a \notin {r.aircraft : r \in news}}
                      \cup {r.aircraft : r \in {x \in news : Sendable(x)}}
         /\ poll' = [poll EXCEPT ![s] = [at |-> "putting", batch |-> {},
                                         rest |-> IF compared = reports THEN news ELSE {}]]
  BY <1>2
<1>4. /\ reports \subseteq {r \in Reports : r.aircraft \in Covers[s]}
      /\ \A q, r \in reports : q.aircraft = r.aircraft => q = r
      /\ compared \subseteq reports
  BY <1>3 DEF Responses, Compared
<1>5. /\ news \subseteq {r \in Reports : r.aircraft \in Covers[s]}
      /\ news \subseteq Reports
      /\ \A q, r \in news : q.aircraft = r.aircraft => q = r
  BY <1>3, <1>4
<1>6. /\ \A r \in Reports : r.aircraft \in Aircraft
      /\ None \notin Reports
  BY AdsbAssumption
<1>7. \A a \in Aircraft : Kept[a] \in {None, seen[a]}
  BY DEF Kept
<1>8. /\ \A r \in news : seen'[r.aircraft] = r
      /\ \A a \in Aircraft : (\A r \in news : r.aircraft # a) => seen'[a] = Kept[a]
      /\ seen' \in [Aircraft -> Reports \cup {None}]
  <2>1. \A a \in Aircraft : seen'[a] = IF \E r \in news : r.aircraft = a
                                       THEN CHOOSE r \in news : r.aircraft = a ELSE Kept[a]
    BY <1>3 DEF Marked
  <2>2. \A r \in news : seen'[r.aircraft] = r
    BY <1>5, <1>6, <2>1
  <2>3. \A a \in Aircraft : (\A r \in news : r.aircraft # a) => seen'[a] = Kept[a]
    BY <2>1
  <2>4. \A a \in Aircraft : seen'[a] \in Reports \cup {None}
    BY <1>5, <1>7, <2>2, <2>3 DEF Structure, AdsbTypeOK
  <2> QED
    BY <1>3, <2>2, <2>3, <2>4 DEF Marked
<1>9. /\ {r.aircraft : r \in news} \subseteq Aircraft
      /\ \A a \in {r.aircraft : r \in news} : seen'[a] # None
  BY <1>5, <1>6, <1>8
<1>10. (expired \cup owed \subseteq Seen)'
  <2>1. expired \cup owed \subseteq Aircraft
    BY DEF Structure, AdsbTypeOK, Seen
  <2>2. ASSUME NEW a \in expired' \cup owed' PROVE a \in Aircraft /\ seen'[a] # None
    <3>1. CASE a \in {r.aircraft : r \in news}
      BY <1>9, <3>1
    <3>2. CASE a \notin {r.aircraft : r \in news}
      <4>1. a \in expired \cup owed /\ Kept[a] # None
        BY <1>3, <2>2, <3>2
      <4> QED
        BY <1>8, <2>1, <3>2, <4>1
    <3> QED
      BY <3>1, <3>2
  <2> QED
    BY <2>2 DEF Seen
<1>11. PICK l : l = [at |-> "putting", batch |-> {}, rest |-> IF compared = reports THEN news ELSE {}]
  OBVIOUS
<1>12. /\ l \in Loops /\ l.at = "putting" /\ l.batch = {} /\ l.rest \in {{}, news}
       /\ compared = reports => l.rest = news
  BY <1>5, <1>11 DEF Loops
<1>13. poll' = [poll EXCEPT ![s] = l]
  BY <1>3, <1>11
<1>14. /\ poll'[s] = l /\ poll' \in [Sources -> Loops]
       /\ \A t \in Sources \ {s} : poll'[t] = poll[t]
       /\ {t \in Sources : poll'[t].at = "queued"} = {t \in Sources : poll[t].at = "queued"}
       /\ \A t \in Sources : poll'[t].at # "putting" => Pending(t)' = {}
  BY <1>1, <1>2, <1>12, <1>13 DEF Pending
<1>15. line' \in Seq(Sources) /\ {line'[i] : i \in DOMAIN line'} = {t \in Sources : poll'[t].at = "queued"}
  BY <1>1, <1>2, <1>14
<1>16. Structure'
  BY <1>1, <1>2, <1>8, <1>10, <1>14, <1>15 DEF Structure, AdsbTypeOK, Loops, OnceInLine
<1>17. ASSUME \A r \in Reports : r.messages # Null PROVE compared = reports
  <2>1. \A r \in reports : ~Raises(r)
    <3> SUFFICES ASSUME NEW r \in reports, Raises(r) PROVE FALSE
      OBVIOUS
    <3>1. r \in Reports /\ r.aircraft \in Aircraft
      BY <1>4, <1>6
    <3>2. Kept[r.aircraft] # None /\ Kept[r.aircraft] \in Reports
      BY <1>7, <3>1 DEF Raises, Structure, AdsbTypeOK
    <3> QED
      BY <1>17, <3>1, <3>2 DEF Raises, Incomparable
  <2>2. {r \in reports : Raises(r)} = {}
    BY <2>1
  <2> QED
    BY <1>3, <2>2 DEF Compared
<1>18. Pending(s) = {}
  BY <1>1, <1>2 DEF Pending
<1>19. \A a \in Aircraft : (\A r \in news : r.aircraft # a) =>
         /\ seen'[a] \in {None, seen[a]}
         /\ a \in owed' => a \in owed /\ seen'[a] # None
  <2> SUFFICES ASSUME NEW a \in Aircraft, \A r \in news : r.aircraft # a
               PROVE  /\ seen'[a] \in {None, seen[a]}
                      /\ a \in owed' => a \in owed /\ seen'[a] # None
    OBVIOUS
  <2>1. a \notin {r.aircraft : r \in news}
        /\ a \notin {r.aircraft : r \in {x \in news : Sendable(x)}}
    OBVIOUS
  <2> QED
    BY <1>3, <1>7, <1>8, <2>1
<1>20. ASSUME NEW r \in news, r.aircraft \in owed' PROVE Sendable(r)
  <2>1. r.aircraft \in {x.aircraft : x \in {x \in news : Sendable(x)}}
    BY <1>3, <1>20
  <2> QED
    BY <1>5, <2>1
<1>21. Finds(s, news)
  BY <1>2, <1>5, <1>8, <1>12, <1>14, <1>17, <1>18, <1>19, <1>20 DEF Finds, OthersHold
<1> QED
  BY <1>16, <1>21

\* Every step is of one of these kinds.
LEMMA Kinds ==
    ASSUME Structure, Entries, [AdsbNext]_adsbVars
    PROVE  /\ Structure'
           /\ \/ Unmoved
              \/ \E s \in Sources : \/ Taken(s)
                                    \/ \E r : Put(s, r)
                                    \/ \E news : Finds(s, news)
<1>1. ASSUME NEW s \in Sources, Polls(s) \/ Fetched(s) \/ NextBatch(s) \/ Puts(s)
      PROVE  /\ Structure'
             /\ Unmoved \/ Taken(s) \/ (\E r : Put(s, r)) \/ (\E news : Finds(s, news))
  BY <1>1, PollsStep, FetchedStep, BatchStep, PutStep
<1>2. ASSUME UNCHANGED <<poll, line, seen, owed, shown>>,
             depth' \in 0..QueueSize, sending' \in BOOLEAN, expired' \subseteq Seen
      PROVE  Structure' /\ Unmoved
  <2>1. {line'[i] : i \in DOMAIN line'} = {t \in Sources : poll'[t].at = "queued"}
    BY <1>2 DEF Structure, AdsbTypeOK
  <2>2. \A s \in Sources : poll'[s].at # "putting" => Pending(s)' = {}
    BY <1>2 DEF Structure, AdsbTypeOK, Pending
  <2> QED
    BY <1>2, <2>1, <2>2 DEF Structure, AdsbTypeOK, OnceInLine, Unmoved, Seen
<1>3. CASE Drains
  <2>1. depth \in 0..QueueSize /\ QueueSize \in Nat
    BY AdsbAssumption DEF Structure, AdsbTypeOK
  <2>2. depth > 0 /\ depth' = depth - 1
    BY <1>3 DEF Drains
  <2>3. depth' \in 0..QueueSize
    BY <2>1, <2>2
  <2> QED
    BY <1>2, <1>3, <2>3 DEF Drains, Structure, AdsbTypeOK
<1>4. CASE LinkDies
  BY <1>2, <1>4 DEF LinkDies, Structure, AdsbTypeOK
<1>5. ASSUME NEW a \in Aircraft, Expires(a) PROVE Structure' /\ Unmoved
  <2>1. expired' \subseteq Seen
    BY <1>5 DEF Expires, Structure, AdsbTypeOK, Seen
  <2> QED
    BY <1>2, <1>5, <2>1 DEF Expires, Structure, AdsbTypeOK
<1>6. CASE UNCHANGED adsbVars
  BY <1>2, <1>6 DEF adsbVars, Structure, AdsbTypeOK
<1> QED
  BY <1>1, <1>3, <1>4, <1>5, <1>6 DEF AdsbNext

-----------------------------------------------------------------------------
(* Where the reports are.                                                  *)

LEMMA CarriedInit == AdsbInit => Carried
<1> SUFFICES ASSUME AdsbInit PROVE Carried
  OBVIOUS
<1>1. /\ poll = [s \in Sources |-> Asleep] /\ line = <<>> /\ seen = [a \in Aircraft |-> None]
      /\ expired = {} /\ depth = 0 /\ sending = TRUE /\ owed = {}
      /\ shown = [u \in Uids |-> None]
  BY DEF AdsbInit
<1>2. Asleep \in Loops /\ Asleep.at = "sleeping" /\ Asleep.batch = {} /\ Asleep.rest = {}
  BY DEF Asleep, Loops
<1>3. poll \in [Sources -> Loops] /\ \A s \in Sources : poll[s].at = "sleeping" /\ Pending(s) = {}
  BY <1>1, <1>2 DEF Pending
<1>4. line \in Seq(Sources) /\ DOMAIN line = {}
  BY <1>1, EmptySeq, LenProperties
<1>5. {line[i] : i \in DOMAIN line} = {s \in Sources : poll[s].at = "queued"}
  BY <1>3, <1>4
<1>6. depth \in 0..QueueSize
  BY <1>1, AdsbAssumption
<1>7. AdsbTypeOK
  BY <1>1, <1>3, <1>4, <1>5, <1>6 DEF AdsbTypeOK, Loops, Seen
<1>8. OnceInLine
  BY <1>4 DEF OnceInLine
<1>9. Entries /\ Owing /\ Banded
  BY <1>1 DEF Entries, Owing, Banded
<1>10. Held /\ Current
  BY <1>3 DEF Held, Current, Pending
<1> QED
  BY <1>7, <1>8, <1>9, <1>10 DEF Carried

LEMMA CarriedStep == Carried /\ [AdsbNext]_adsbVars => Carried'
<1> SUFFICES ASSUME Carried, [AdsbNext]_adsbVars PROVE Carried'
  OBVIOUS
<1>1. /\ Structure' /\ Structure
      /\ \/ Unmoved
         \/ \E s \in Sources : \/ Taken(s)
                               \/ \E r : Put(s, r)
                               \/ \E news : Finds(s, news)
  BY Kinds DEF Carried, Structure
<1>2. owed \subseteq Aircraft /\ \A r \in Reports : r.aircraft \in Aircraft
  BY <1>1, AdsbAssumption DEF Structure, AdsbTypeOK, Seen
<1>3. CASE Unmoved
  <2>1. \A s \in Sources : poll'[s].batch = poll[s].batch /\ Pending(s)' = Pending(s)
    BY <1>3 DEF Unmoved, Pending
  <2>2. UNCHANGED <<seen, owed, shown>>
    BY <1>3 DEF Unmoved
  <2>3. Held' /\ Current'
    BY <2>1, <2>2 DEF Carried, Held, Current
  <2> QED
    BY <1>1, <2>2, <2>3 DEF Carried, Structure, Entries, Owing, Banded
<1>4. ASSUME NEW s \in Sources, Taken(s) PROVE Carried'
  <2>1. \A t \in Sources : Pending(t)' \subseteq Pending(t)
    BY <1>4 DEF Taken, OthersHold, Pending
  <2>2. UNCHANGED <<seen, owed, shown>>
    BY <1>4 DEF Taken
  <2>3. Held'
    BY <1>4, <2>1 DEF Taken, OthersHold, Carried, Held
  <2>4. Current'
    BY <2>1, <2>2 DEF Carried, Current
  <2> QED
    BY <1>1, <2>2, <2>3, <2>4 DEF Carried, Structure, Entries, Owing, Banded
<1>5. ASSUME NEW s \in Sources, NEW r, Put(s, r) PROVE Carried'
  <2>1. \A t \in Sources : Pending(t)' \subseteq Pending(t) /\ poll'[t].batch \subseteq poll[t].batch
    BY <1>5 DEF Put, OthersHold, Pending
  <2>2. UNCHANGED seen /\ owed' \subseteq owed /\ shown' = [shown EXCEPT ![Uid(r)] = r]
    BY <1>5 DEF Put
  <2>3. Sendable(r)
    BY <1>5 DEF Put, Carried, Held
  <2>4. Held' /\ Current'
    BY <2>1, <2>2 DEF Carried, Held, Current
  <2>5. Banded'
    BY <2>2, <2>3 DEF Carried, Banded
  <2> QED
    BY <1>1, <2>2, <2>4, <2>5 DEF Carried, Structure, Entries, Owing
<1>6. ASSUME NEW s \in Sources, NEW news, Finds(s, news) PROVE Carried'
  <2>1. /\ Pending(s) = {} /\ Pending(s)' \subseteq news /\ poll'[s].batch = {}
        /\ \A t \in Sources \ {s} : Pending(t)' = Pending(t) /\ poll'[t].batch = poll[t].batch
    BY <1>6 DEF Finds, OthersHold, Pending
  <2>2. /\ \A r \in news : /\ r \in Reports /\ r.aircraft \in Covers[s] /\ r.aircraft \in Aircraft
                           /\ seen'[r.aircraft] = r
                           /\ r.aircraft \in owed' => Sendable(r)
        /\ \A a \in Aircraft : (\A r \in news : r.aircraft # a) =>
             /\ seen'[a] \in {None, seen[a]}
             /\ a \in owed' => a \in owed /\ seen'[a] # None
    BY <1>2, <1>6 DEF Finds
  <2>3. Entries'
    BY <2>2 DEF Carried, Entries
  <2>4. Held'
    BY <2>1, <2>2 DEF Carried, Held
  <2>5. Current'
    <3> SUFFICES ASSUME NEW t \in Sources, NEW a \in Aircraft, Sole(t, a),
                        NEW r \in Pending(t)', r.aircraft = a
                 PROVE  seen'[a] \in {None, r}
      BY DEF Current, Sole
    <3>1. CASE t = s
      BY <2>1, <2>2, <3>1
    <3>2. CASE t # s
      <4>1. \A q \in news : q.aircraft # a
        BY <2>2, <3>2 DEF Sole
      <4>2. seen[a] \in {None, r}
        BY <2>1, <3>2 DEF Carried, Current
      <4> QED
        BY <2>2, <4>1, <4>2
    <3> QED
      BY <3>1, <3>2
  <2>6. Owing'
    <3> SUFFICES ASSUME NEW a \in owed' PROVE Sendable(seen'[a])
      BY DEF Owing
    <3>1. a \in Aircraft
      BY <1>1 DEF Structure, AdsbTypeOK, Seen
    <3>2. CASE \A r \in news : r.aircraft # a
      <4>1. a \in owed /\ seen'[a] = seen[a]
        BY <2>2, <3>1, <3>2
      <4> QED
        BY <4>1 DEF Carried, Owing
    <3>3. CASE \E r \in news : r.aircraft = a
      BY <2>2, <3>3
    <3> QED
      BY <3>2, <3>3
  <2>7. Banded'
    BY <1>6 DEF Finds, Carried, Banded
  <2> QED
    BY <1>1, <2>3, <2>4, <2>5, <2>6, <2>7 DEF Carried, Structure
<1> QED
  BY <1>1, <1>3, <1>4, <1>5, <1>6

\* The polls, the line of the semaphore, the cache and the queue keep their
\* types: a source waits or polls, a poll that ended holds nothing, and the
\* queue never holds more than it can.
THEOREM AdsbTypeCorrect == AdsbSpec => []AdsbTypeOK
<1>1. Carried => AdsbTypeOK
  BY DEF Carried
<1> QED
  BY <1>1, CarriedInit, CarriedStep, PTL DEF AdsbSpec

\* No marker is shown outside the band but by an Alt, which the filter does not
\* look at, or at 0, which it passes over: in every other report filter and event
\* choose the same altitude, though by different rules.
THEOREM MarkersAreInBand == AdsbSpec => []InBand
<1>1. Carried => InBand
  <2> SUFFICES ASSUME Carried, NEW u \in DOMAIN shown, shown[u] # None, shown[u].alt = None,
                      Height(shown[u]) \in Int, Height(shown[u]) # 0
               PROVE  /\ Upper # 0 => Height(shown[u]) <= Upper
                      /\ Lower # 0 => Height(shown[u]) >= Lower
    BY DEF InBand
  <2>1. Passes(shown[u])
    BY DEF Carried, Banded, Sendable
  <2>2. Altitude(shown[u]) = Height(shown[u])
    BY AdsbAssumption DEF Altitude, Height
  <2> QED
    BY <2>1, <2>2 DEF Passes
<1> QED
  BY <1>1, CarriedInit, CarriedStep, PTL DEF AdsbSpec

-----------------------------------------------------------------------------
(* What the cache calls seen.                                              *)

\* Without a null to compare with, no exception loses what a poll found.
NoNulls == \A r \in Reports : r.messages # Null

\* How a step moves the reports, in the terms of the two properties: one that
\* makes an event leaves a poll when it is put, and a poll that found something
\* held nothing before.
LEMMA Moves ==
    ASSUME Carried, NoNulls, [AdsbNext]_adsbVars
    PROVE  \/ /\ UNCHANGED <<seen, owed, shown>>
              /\ \A s \in Sources, r \in Reports :
                   r \in Pending(s) /\ Sendable(r) => r \in Pending(s)'
           \/ \E s \in Sources : \E r \in Pending(s) :
                /\ r \in Reports /\ Put(s, r)
                /\ \A t \in Sources : \A q \in Pending(t) : q # r \/ t # s => q \in Pending(t)'
           \/ \E s \in Sources : \E news :
                /\ Finds(s, news) /\ Pending(s)' = news
                /\ \A t \in Sources : \A q \in Pending(t) : q \in Pending(t)'
<1>1. \/ Unmoved
      \/ \E s \in Sources : \/ Taken(s)
                            \/ \E r : Put(s, r)
                            \/ \E news : Finds(s, news)
  BY Kinds DEF Carried, Structure
<1>2. CASE Unmoved
  BY <1>2 DEF Unmoved, Pending
<1>3. ASSUME NEW s \in Sources, Taken(s)
      PROVE  /\ UNCHANGED <<seen, owed, shown>>
             /\ \A t \in Sources, r \in Reports :
                  r \in Pending(t) /\ Sendable(r) => r \in Pending(t)'
  BY <1>3 DEF Taken, OthersHold, Pending
<1>4. ASSUME NEW s \in Sources, NEW r, Put(s, r)
      PROVE  /\ r \in Pending(s) /\ r \in Reports
             /\ \A t \in Sources : \A q \in Pending(t) : q # r \/ t # s => q \in Pending(t)'
  BY <1>4 DEF Put, OthersHold, Pending
<1>5. ASSUME NEW s \in Sources, NEW news, Finds(s, news)
      PROVE  Pending(s)' = news /\ \A t \in Sources : \A q \in Pending(t) : q \in Pending(t)'
  <2>1. Pending(s)' = news /\ Pending(s) = {}
    BY <1>5 DEF Finds, NoNulls, Pending
  <2>2. \A t \in Sources \ {s} : Pending(t)' = Pending(t)
    BY <1>5 DEF Finds, OthersHold, Pending
  <2> QED
    BY <2>1, <2>2
<1> QED
  BY <1>1, <1>2, <1>3, <1>4, <1>5

LEMMA SentStep ==
    ASSUME Carried, NoNulls, SeenIsSent, [AdsbNext]_adsbVars
    PROVE  SeenIsSent'
<1>1. /\ owed \subseteq Aircraft /\ \A a \in owed : seen[a] \in Reports
      /\ owed' \subseteq Aircraft
      /\ \A r \in Reports : r.aircraft \in Aircraft
  <2>1. Structure /\ Structure'
    BY Kinds DEF Carried, Structure
  <2> QED
    BY <2>1, AdsbAssumption DEF Structure, AdsbTypeOK, Seen
<1>2. CASE /\ UNCHANGED <<seen, owed, shown>>
           /\ \A s \in Sources, r \in Reports :
                r \in Pending(s) /\ Sendable(r) => r \in Pending(s)'
  BY <1>1, <1>2 DEF SeenIsSent, Carried, Owing
<1>3. ASSUME NEW s \in Sources, NEW r \in Pending(s), r \in Reports, Put(s, r),
             \A t \in Sources : \A q \in Pending(t) : q # r \/ t # s => q \in Pending(t)'
      PROVE  SeenIsSent'
  <2> SUFFICES ASSUME NEW a \in owed' PROVE \E t \in Sources : seen'[a] \in Pending(t)'
    BY DEF SeenIsSent
  <2>1. a \in owed /\ seen'[a] = seen[a]
    BY <1>3 DEF Put
  <2>2. seen[a] # r
    <3>1. seen[a].aircraft = a
      BY <1>1, <2>1, AdsbAssumption DEF Carried, Entries
    <3> QED
      BY <1>3, <3>1 DEF Put
  <2> QED
    BY <1>3, <2>1, <2>2 DEF SeenIsSent
<1>4. ASSUME NEW s \in Sources, NEW news, Finds(s, news), Pending(s)' = news,
             \A t \in Sources : \A q \in Pending(t) : q \in Pending(t)'
      PROVE  SeenIsSent'
  <2> SUFFICES ASSUME NEW a \in owed' PROVE \E t \in Sources : seen'[a] \in Pending(t)'
    BY DEF SeenIsSent
  <2>1. a \in Aircraft
    BY <1>1
  <2>2. CASE \E r \in news : r.aircraft = a
    BY <1>4, <2>2 DEF Finds
  <2>3. CASE \A r \in news : r.aircraft # a
    <3>1. a \in owed /\ seen'[a] = seen[a]
      BY <1>4, <2>1, <2>3 DEF Finds
    <3> QED
      BY <1>4, <3>1 DEF SeenIsSent
  <2> QED
    BY <2>2, <2>3
<1> QED
  BY Moves, <1>2, <1>3, <1>4

\* If no record has null for its messages, an aircraft that counts as seen has
\* had its report put on the queue or a poll in progress still holds it, at
\* every moment of every interleaving of the polls, whatever batches, order of
\* puts and expiry of the cache.  (MCAdsbBad shows what a null does.)
THEOREM SeenMeansSent == ASSUME NoNulls PROVE AdsbSpec => []SeenIsSent
<1>1. AdsbInit => SeenIsSent
  BY DEF AdsbInit, SeenIsSent
<1>2. Carried /\ SeenIsSent /\ [AdsbNext]_adsbVars => SeenIsSent'
  BY SentStep
<1> QED
  BY <1>1, <1>2, CarriedInit, CarriedStep, PTL DEF AdsbSpec

-----------------------------------------------------------------------------
(* What the marker shows.                                                  *)

\* The UID of an aircraft that has its names to itself is nobody else's, the
\* flight it falls back to without an address included.
LEMMA UidsDiffer ==
    ASSUME NEW a \in Aircraft, Distinct(a), NEW r \in Reports, NEW q \in Reports,
           r.aircraft = a, Uid(r) # None, Uid(r) = Uid(q)
    PROVE  q.aircraft = a
<1> SUFFICES ASSUME q.aircraft # a PROVE FALSE
  OBVIOUS
<1>1. /\ r.reg # None => r.reg # q.reg
      /\ r.flight # None => r.flight # q.flight
      /\ r.hex # None => r.hex # q.hex
  BY DEF Distinct
<1>2. CASE "REG" \in UidKey /\ r.reg # None
  BY <1>1, <1>2 DEF Uid
<1>3. CASE ~("REG" \in UidKey /\ r.reg # None) /\ "FLIGHT" \in UidKey /\ r.flight # None
  BY <1>1, <1>3 DEF Uid
<1>4. CASE /\ ~("REG" \in UidKey /\ r.reg # None)
           /\ ~("FLIGHT" \in UidKey /\ r.flight # None)
           /\ r.hex # None
  BY <1>1, <1>4 DEF Uid
<1>5. CASE /\ ~("REG" \in UidKey /\ r.reg # None)
           /\ ~("FLIGHT" \in UidKey /\ r.flight # None)
           /\ r.hex = None /\ r.flight # None
  BY <1>1, <1>5 DEF Uid
<1> QED
  BY <1>2, <1>3, <1>4, <1>5 DEF Uid

LEMMA ShownStep ==
    ASSUME Carried, NoNulls, NewestIsShown, [AdsbNext]_adsbVars
    PROVE  NewestIsShown'
<1> SUFFICES ASSUME NEW a \in Aircraft, NEW home \in Sources, Sole(home, a),
                    seen'[a] # None, Sendable(seen'[a]), Distinct(a)
             PROVE  \/ shown'[Uid(seen'[a])] = seen'[a]
                    \/ \E t \in Sources : seen'[a] \in Pending(t)'
  BY DEF NewestIsShown, Sole
<1>1. /\ seen'[a] \in Reports
      /\ shown \in [Uids -> Reports \cup {None}]
  <2>1. Structure /\ Structure'
    BY Kinds DEF Carried, Structure
  <2> QED
    BY <2>1 DEF Structure, AdsbTypeOK
<1>2. ASSUME seen'[a] = seen[a]
      PROVE  \/ shown[Uid(seen[a])] = seen[a]
             \/ \E t \in Sources : seen[a] \in Pending(t)
  BY <1>2 DEF NewestIsShown
<1>3. CASE /\ UNCHANGED <<seen, owed, shown>>
           /\ \A s \in Sources, r \in Reports :
                r \in Pending(s) /\ Sendable(r) => r \in Pending(s)'
  BY <1>1, <1>2, <1>3
<1>4. ASSUME NEW s \in Sources, NEW r \in Pending(s), r \in Reports, Put(s, r),
             \A t \in Sources : \A q \in Pending(t) : q # r \/ t # s => q \in Pending(t)'
      PROVE  \/ shown'[Uid(seen'[a])] = seen'[a]
             \/ \E t \in Sources : seen'[a] \in Pending(t)'
  <2>1. seen'[a] = seen[a] /\ shown' = [shown EXCEPT ![Uid(r)] = r]
    BY <1>4 DEF Put
  <2>2. seen[a].aircraft = a
    BY <2>1 DEF Carried, Entries
  <2>3. CASE Uid(r) = Uid(seen[a])
    \* r is of the same aircraft, and what its only source puts is the entry.
    <3>1. r.aircraft = a
      BY <1>1, <1>4, <2>1, <2>2, <2>3, UidsDiffer DEF Sendable
    <3>2. s = home
      BY <1>4, <3>1 DEF Carried, Held, Sole
    <3>3. seen[a] = r
      BY <1>4, <2>1, <3>1, <3>2 DEF Carried, Current
    <3>4. Uid(r) \in Uids
      BY <1>1, <2>1, <2>3 DEF Sendable, Uids
    <3> QED
      BY <1>1, <1>4, <2>1, <3>3, <3>4
  <2>4. CASE Uid(r) # Uid(seen[a])
    <3>1. shown'[Uid(seen[a])] = shown[Uid(seen[a])] /\ seen[a] # r
      BY <1>1, <2>1, <2>4
    <3> QED
      BY <1>2, <1>4, <2>1, <3>1
  <2> QED
    BY <2>3, <2>4
<1>5. ASSUME NEW s \in Sources, NEW news, Finds(s, news), Pending(s)' = news,
             \A t \in Sources : \A q \in Pending(t) : q \in Pending(t)'
      PROVE  \/ shown'[Uid(seen'[a])] = seen'[a]
             \/ \E t \in Sources : seen'[a] \in Pending(t)'
  <2>1. CASE \E r \in news : r.aircraft = a
    BY <1>5, <2>1 DEF Finds
  <2>2. CASE \A r \in news : r.aircraft # a
    <3>1. seen'[a] = seen[a] /\ shown' = shown
      BY <1>5, <2>2 DEF Finds
    <3> QED
      BY <1>2, <1>5, <3>1
  <2> QED
    BY <2>1, <2>2
<1> QED
  BY Moves, <1>3, <1>4, <1>5

\* If no record has null for its messages, the marker of an aircraft that one
\* source covers, and that has its names to itself (which those with a null for
\* their hex do not), shows the report that later polls are compared with, unless
\* that one is still to be put: whether the marker goes by registration, flight
\* or address, however the puts of the sources interleave, and though the entries
\* of the cache expire, get dropped and come back.
THEOREM MarkersAreNewest == ASSUME NoNulls PROVE AdsbSpec => []NewestIsShown
<1>1. AdsbInit => NewestIsShown
  BY DEF AdsbInit, NewestIsShown
<1>2. Carried /\ NewestIsShown /\ [AdsbNext]_adsbVars => NewestIsShown'
  BY ShownStep
<1> QED
  BY <1>1, <1>2, CarriedInit, CarriedStep, PTL DEF AdsbSpec

=============================================================================
