------------------------------- MODULE MCAdsb -------------------------------
(* Constants of AdsbWorker for TLC. *)
EXTENDS AdsbWorker

CONSTANTS s1, s2, s3, a1, a2, a3, p, q, n, Ground

Rep(a, m, lat) ==
    [aircraft |-> a, messages |-> m, lat |-> lat, reg |-> None, flight |-> None,
     hex |-> a, alt |-> None, geom |-> None, baro |-> 2, ground |-> FALSE,
     sound |-> TRUE]

\* two sources share an aircraft, one of them has two more; the third returns
\* nothing and competes for the semaphore
MCCovers == [s \in {s1, s2, s3} |-> CASE s = s1 -> {a1}
                                      [] s = s2 -> {a1, a2, a3}
                                      [] s = s3 -> {}]

\* a1, whose hex is null, is shown out of the band of 1..3 by its Alt; a2 has an
\* empty hex and goes by its flight; a3 is out of the band, though not by its
\* alt_baro
MCReports ==
    {[Rep(a1, 0, p) EXCEPT !.hex = Null, !.geom = Ground, !.alt = 5],
     [Rep(a2, 0, p) EXCEPT !.hex = None, !.flight = n],
     [Rep(a2, 0, q) EXCEPT !.hex = None, !.flight = n],
     [Rep(a3, 0, p) EXCEPT !.reg = n, !.geom = 5]}

\* two sources that do not overlap
MCBadCovers == [s \in {s1, s2} |-> IF s = s1 THEN {a1, a2} ELSE {}]

\* a record may have null for its messages; one makes the converter raise
MCBadReports == {Rep(a1, 0, p), [Rep(a1, 1, p) EXCEPT !.sound = FALSE],
                 Rep(a2, 0, p), Rep(a2, Null, p)}
=============================================================================
