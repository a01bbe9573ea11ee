-------------------------- MODULE ProbeMeterProofs --------------------------
(***************************************************************************)
(* What the controller counts as lost, for any number of neighbours and    *)
(* datagrams, any width of the counters and any intervals; and the jitter, *)
(* for any clocks.                                                         *)
(***************************************************************************)
EXTENDS ProbeMeter, TLAPS

----------------------------------------------------------------------------
(* Arithmetic. *)

\* The quotient and the remainder.
LEMMA DivFacts ==
  ASSUME NEW x \in Nat, NEW d \in Nat \ {0}
  PROVE  /\ x \div d \in Nat
         /\ d * (x \div d) <= x
         /\ x < d * (x \div d) + d
OBVIOUS

\* A product of positive numbers is positive.
LEMMA ProductPositive ==
  ASSUME NEW x \in Nat \ {0}, NEW d \in Nat \ {0}
  PROVE  x * d \in Nat \ {0}
OBVIOUS

\* A quotient that is below the next one is not larger.
LEMMA FactorOrder ==
  ASSUME NEW a \in Nat, NEW b \in Nat, NEW s \in Nat \ {0}, s * a < s * (b + 1)
  PROVE  a <= b
OBVIOUS

\* A longer interval does not make a product smaller.
LEMMA FactorGrows ==
  ASSUME NEW a \in Nat, NEW s \in Nat \ {0}, NEW p \in Nat \ {0}
  PROVE  s * a <= (s * p) * a
OBVIOUS

\* One more than a quotient, times the divisor.
LEMMA Distributed ==
  ASSUME NEW s \in Nat, NEW b \in Nat
  PROVE  s * (b + 1) = s * b + s /\ s * b \in Nat
OBVIOUS

\* In less time and with a longer interval, not more.
LEMMA DivOrder ==
  ASSUME NEW x \in Nat, NEW y \in Nat, x <= y, NEW s \in Nat \ {0}, NEW p \in Nat \ {0}
  PROVE  x \div (s * p) <= y \div s
<1>1. s * p \in Nat \ {0}
  BY ProductPositive
<1>2. PICK a : a = x \div (s * p)
  OBVIOUS
<1>3. PICK b : b = y \div s
  OBVIOUS
<1>4. a \in Nat /\ (s * p) * a <= x
  BY <1>1, <1>2, DivFacts
<1>5. b \in Nat /\ y < s * b + s
  BY <1>3, DivFacts
<1>6. s * a <= (s * p) * a
  BY <1>4, FactorGrows
<1>7. s * (b + 1) = s * b + s /\ s * b \in Nat
  BY <1>5, Distributed
<1>8. s * a \in Nat /\ (s * p) * a \in Nat
  BY <1>1, <1>4
<1>9. s * a < s * (b + 1)
  BY <1>4, <1>5, <1>6, <1>7, <1>8
<1> QED
  BY <1>2, <1>3, <1>4, <1>5, <1>9, FactorOrder

\* The bound on a count grows with the time.
LEMMA BoundGrows ==
  ASSUME NEW j \in Nat, NEW e \in Nat, NEW f \in Nat, e <= f
  PROVE  j * (e + 1) <= j * (f + 1)
OBVIOUS

\* ... and by one more with each probe than the time allows for one.
LEMMA BoundSteps ==
  ASSUME NEW j \in Nat, NEW e \in Nat
  PROVE  (j + 1) * (e + 1) = j * (e + 1) + e + 1 /\ j * (e + 1) \in Nat
OBVIOUS

\* A remainder of W.
LEMMA Modulo ==
  ASSUME NEW x \in Nat
  PROVE  x % W \in Nat /\ x % W <= x
BY WidthAssumption

\* A difference that wraps around.
LEMMA WrapsAround == (-1) % W = W - 1
BY WidthAssumption

\* A quotient is not larger than what is divided.
LEMMA DivSmaller ==
  ASSUME NEW x \in Nat, NEW d \in Nat \ {0}
  PROVE  x \div d <= x
<1>1. PICK a : a = x \div d
  OBVIOUS
<1>2. a \in Nat /\ d * a <= x
  BY <1>1, DivFacts
<1>3. a <= d * a /\ d * a \in Nat
  BY <1>2, FactorGrows
<1> QED
  BY <1>1, <1>2, <1>3

----------------------------------------------------------------------------
(* The invariant. *)

\* Times are in order.
TimesOrdered == \A q \in Ids : taken[q] <= lastAgg /\ heard[q] <= now

\* An entry says when a probe was last handled, unless it was made after that.
HeardKept ==
  \A q \in Listed : neigh[q].seen = IF neigh[q].known THEN heard[q] ELSE 0

\* Loss is counted for no other reason than a sequence error.
LossNeedsError ==
  \A q \in Ids : errs[q] = NoErrors /\ stats[q] # NoStats => stats[q].pl = 0

MeterInv == TypeOK /\ TimesOrdered /\ LossBounded /\ HeardKept /\ LossNeedsError

\* The interval between two probes, in ticks.
LEMMA IntervalPositive ==
  ASSUME TypeOK
  PROVE  Second * probe \in Nat \ {0}
BY ProductPositive, TimerAssumption DEF TypeOK

\* Probes counts.
LEMMA ProbesTyped ==
  ASSUME TypeOK, NEW time \in Nat
  PROVE  Probes(time) \in Nat
<1>1. Second * probe \in Nat \ {0}
  BY IntervalPositive
<1> QED
  BY <1>1, DivFacts DEF Probes

\* What fits into the time since the last aggregate fits into that since the neighbour
\* was last reported.
LEMMA ProbesElapsed ==
  ASSUME TypeOK, TimesOrdered, NEW q \in Ids
  PROVE  Probes(now - lastAgg) <= Elapsed(q) /\ Elapsed(q) \in Nat
<1>1. now - lastAgg \in Nat /\ now - taken[q] \in Nat /\ now - lastAgg <= now - taken[q]
  BY DEF TypeOK, TimesOrdered
<1>2. Second \in Nat \ {0} /\ probe \in Nat \ {0}
  BY TimerAssumption DEF TypeOK
<1>3. (now - taken[q]) \div Second \in Nat
  BY <1>1, <1>2, DivFacts
<1>4. (now - lastAgg) \div (Second * probe) <= (now - taken[q]) \div Second
  BY <1>1, <1>2, DivOrder
<1> QED
  BY <1>3, <1>4 DEF Probes, Elapsed

\* ... and is far from the width of the counters.
LEMMA ProbesSmall ==
  ASSUME TypeOK
  PROVE  Probes(now - lastAgg) \in Nat /\ Probes(now - lastAgg) + 2 < W
<1>1. now - lastAgg \in Nat /\ now - lastAgg <= MaxClock
  BY WidthAssumption DEF TypeOK
<1>2. Second * probe \in Nat \ {0}
  BY IntervalPositive
<1>3. Probes(now - lastAgg) <= now - lastAgg
  BY <1>1, <1>2, DivSmaller DEF Probes
<1>4. Probes(now - lastAgg) \in Nat
  BY <1>1, ProbesTyped
<1> QED
  BY <1>1, <1>3, <1>4, ClockAssumption, WidthAssumption

\* The first state: nothing is known of anybody.
LEMMA InitMeter == Init => MeterInv
<1> SUFFICES ASSUME Init PROVE MeterInv
  OBVIOUS
<1>1. Second * StartAggregate \in Nat
  BY TimerAssumption
<1>2. Listed = {}
  BY DEF Init, Listed
<1>3. NoErrors \in Errors
  BY DEF NoErrors, Errors
<1>4. TypeOK
  BY <1>1, <1>3, TimerAssumption, WidthAssumption DEF Init, TypeOK
<1> QED
  BY <1>2, <1>4 DEF Init, MeterInv, TimesOrdered, LossBounded, HeardKept, LossNeedsError

----------------------------------------------------------------------------
(* The statistics. *)

\* The loss that the sequence numbers claim is at most what they skip, or more than any
\* time allows, or the number of a late datagram.
LEMMA LostBetweenCases ==
  ASSUME NEW last \in Nat, NEW s \in Nat
  PROVE  /\ LostBetween(last, s) \in Nat
         /\ s > last => LostBetween(last, s) <= s - last - 1
         /\ s = last => LostBetween(last, s) = W - 1
<1>1. CASE s > last
  <2>1. s - last - 1 \in Nat
    BY <1>1
  <2>2. (s - last - 1) % W \in Nat /\ (s - last - 1) % W <= s - last - 1
    BY <2>1, Modulo
  <2> QED
    BY <1>1, <2>2 DEF LostBetween
<1>2. CASE s = last
  <2>1. s - last - 1 = -1
    BY <1>2
  <2>2. W - 1 \in Nat
    BY WidthAssumption
  <2> QED
    BY <1>2, <2>1, <2>2, WrapsAround DEF LostBetween
<1>3. CASE s < last
  BY <1>3 DEF LostBetween
<1> QED
  BY <1>1, <1>2, <1>3

\* How the errors f follow from the errors e when number s follows number last.
Follows(f, e, last, s) ==
  /\ s > last => f.skipped = e.skipped + (s - last - 1) /\ f.late = e.late
  /\ s = last => f.skipped = e.skipped /\ f.late = e.late
  /\ s < last => f.skipped = e.skipped /\ f.late = e.late + 1
  /\ f = NoErrors => e = NoErrors /\ s = last + 1

\* What the history makes of it.
LEMMA ErrorsFields ==
  ASSUME NEW e \in Errors, NEW last \in Nat, NEW s \in Nat,
         NEW f, f = ErrorsAfter(e, last, s)
  PROVE  f \in Errors /\ Follows(f, e, last, s)
<1>1. e = [skipped |-> e.skipped, late |-> e.late, repeated |-> e.repeated]
  BY DEF Errors
<1>2. e.skipped \in Nat /\ e.late \in Nat /\ e.repeated \in BOOLEAN
  BY DEF Errors
<1>3. CASE s > last
  <2>1. PICK d \in Nat : d = s - last - 1
    BY <1>3
  <2>2. f = [e EXCEPT !.skipped = @ + d]
    BY <1>3, <2>1 DEF ErrorsAfter
  <2>3. f = [skipped |-> e.skipped + d, late |-> e.late, repeated |-> e.repeated]
    BY <1>1, <2>2
  <2>4. f = NoErrors => e = NoErrors /\ d = 0
    BY <1>1, <1>2, <2>1, <2>3 DEF NoErrors
  <2>5. f \in Errors /\ f.skipped = e.skipped + d /\ f.late = e.late
    BY <1>2, <2>1, <2>3 DEF Errors
  <2>7. f = NoErrors => e = NoErrors /\ s = last + 1
    BY <2>1, <2>4
  <2>8. s > last => f.skipped = e.skipped + (s - last - 1) /\ f.late = e.late
    BY <2>1, <2>5
  <2>9. s # last /\ ~(s < last)
    BY <1>3
  <2> QED
    BY <2>5, <2>7, <2>8, <2>9 DEF Follows
<1>4. CASE s = last
  <2>1. f = [e EXCEPT !.repeated = TRUE]
    BY <1>4 DEF ErrorsAfter
  <2>2. f = [skipped |-> e.skipped, late |-> e.late, repeated |-> TRUE]
    BY <1>1, <2>1
  <2>3. f # NoErrors
    BY <2>2 DEF NoErrors
  <2>4. f \in Errors /\ f.skipped = e.skipped /\ f.late = e.late
    BY <1>2, <2>2 DEF Errors
  <2>5. ~(s < last) /\ ~(s > last)
    BY <1>4
  <2> QED
    BY <1>4, <2>3, <2>4, <2>5 DEF Follows
<1>5. CASE s < last
  <2>1. f = [e EXCEPT !.late = @ + 1]
    BY <1>5 DEF ErrorsAfter
  <2>2. f = [skipped |-> e.skipped, late |-> e.late + 1, repeated |-> e.repeated]
    BY <1>1, <2>1
  <2>3. f # NoErrors
    BY <1>2, <2>2 DEF NoErrors
  <2>4. f \in Errors /\ f.skipped = e.skipped /\ f.late = e.late + 1
    BY <1>2, <2>2 DEF Errors
  <2>5. s # last /\ ~(s > last)
    BY <1>5
  <2> QED
    BY <1>5, <2>3, <2>4, <2>5 DEF Follows
<1> QED
  BY <1>3, <1>4, <1>5

\* What Count makes of the statistics.
LEMMA CountFields ==
  ASSUME NEW st \in Stats \cup {NoStats}, NEW lost \in Nat, NEW most \in Nat,
         most = Probes(now - lastAgg)
  PROVE  /\ Count(st, lost) \in Stats
         /\ st = NoStats => Count(st, lost).pl = IF lost > 1 THEN most ELSE lost
         /\ st # NoStats => /\ st.pl \in Nat
                            /\ Count(st, lost).pl = IF most < lost THEN most ELSE st.pl + lost
<1>1. CASE st = NoStats
  <2>1. Count(st, lost) = [pl |-> IF lost > 1 THEN most ELSE lost, jitters |-> 1]
    BY <1>1 DEF Count
  <2> QED
    BY <1>1, <2>1 DEF Stats
<1>2. CASE st # NoStats
  <2>1. st \in Stats /\ st.pl \in Nat /\ st.jitters \in Nat
    BY <1>2 DEF Stats
  <2>2. Count(st, lost) = [pl |-> IF most < lost THEN most ELSE st.pl + lost,
                           jitters |-> st.jitters + 1]
    BY <1>2 DEF Count
  <2> QED
    BY <1>2, <2>1, <2>2 DEF Stats
<1> QED
  BY <1>1, <1>2

\* One more probe keeps the count within the bound: what it skips is in the errors, the
\* wrapped difference of a repeated one is replaced by what the time allows, and the
\* number of a late one is added as long as it is within that, or 1.
LEMMA CountAdds ==
  ASSUME TypeOK, NEW st \in Stats \cup {NoStats}, NEW last \in Nat, NEW s \in Nat,
         NEW e \in Errors, NEW f \in Errors, Follows(f, e, last, s),
         NEW c, c = Count(st, LostBetween(last, s)),
         NEW el \in Nat, Probes(now - lastAgg) <= el,
         st # NoStats => st.pl <= el + e.skipped + e.late * (el + 1),
         e = NoErrors /\ st # NoStats => st.pl = 0
  PROVE  /\ c \in Stats
         /\ c.pl <= el + f.skipped + f.late * (el + 1)
         /\ f = NoErrors => c.pl = 0
<1>1. PICK most \in Nat : most = Probes(now - lastAgg) /\ most <= el /\ most + 2 < W
  BY ProbesSmall
<1>2. PICK lost \in Nat : /\ lost = LostBetween(last, s)
                          /\ s > last => lost <= s - last - 1
                          /\ s = last => lost = W - 1
                          /\ s < last => lost = s
  BY LostBetweenCases DEF LostBetween
<1>3. /\ c \in Stats /\ c.pl \in Nat
      /\ st = NoStats => c.pl = IF lost > 1 THEN most ELSE lost
      /\ st # NoStats => st.pl \in Nat /\ c.pl = IF most < lost THEN most ELSE st.pl + lost
  BY <1>1, <1>2, CountFields DEF Stats
<1>4. PICK k \in Nat : k = e.skipped
  BY DEF Errors
<1>5. PICK l \in Nat : l = e.late
  BY DEF Errors
<1>6. PICK p : p = l * (el + 1)
  OBVIOUS
<1>7. p \in Nat /\ (l + 1) * (el + 1) = p + el + 1
  BY <1>6, BoundSteps
<1>8. st # NoStats => st.pl <= el + k + p
  BY <1>4, <1>5, <1>6
<1>9. c.pl <= el + f.skipped + f.late * (el + 1)
  <2>1. CASE s > last
    <3>1. PICK d \in Nat : d = s - last - 1
      BY <2>1
    <3>2. f.skipped = k + d /\ f.late = l
      BY <1>4, <1>5, <2>1, <3>1 DEF Follows
    <3>3. lost <= d
      BY <1>2, <2>1, <3>1
    <3>4. c.pl <= el + (k + d) + p
      BY <1>1, <1>3, <1>7, <1>8, <3>3
    <3> QED
      BY <1>6, <3>2, <3>4
  <2>2. CASE s = last
    <3>1. f.skipped = k /\ f.late = l
      BY <1>4, <1>5, <2>2 DEF Follows
    <3>2. lost > 1 /\ most < lost
      BY <1>1, <1>2, <2>2, WidthAssumption
    <3>3. c.pl = most
      BY <1>3, <3>2
    <3>4. c.pl <= el + k + p
      BY <1>1, <1>7, <3>3
    <3> QED
      BY <1>6, <3>1, <3>4
  <2>3. CASE s < last
    <3>1. f.skipped = k /\ f.late = l + 1
      BY <1>4, <1>5, <2>3 DEF Follows
    <3>2. c.pl <= el + k + (p + el + 1)
      BY <1>1, <1>2, <1>3, <1>7, <1>8
    <3> QED
      BY <1>7, <3>1, <3>2
  <2> QED
    BY <2>1, <2>2, <2>3
<1>10. f = NoErrors => c.pl = 0
  <2> SUFFICES ASSUME f = NoErrors PROVE c.pl = 0
    OBVIOUS
  <2>1. e = NoErrors /\ s = last + 1
    BY DEF Follows
  <2>2. lost = 0
    BY <1>2, <2>1
  <2> QED
    BY <1>1, <1>3, <2>1, <2>2
<1> QED
  BY <1>3, <1>9, <1>10

----------------------------------------------------------------------------
(* The steps. *)

\* A neighbour that was listed by an update is one that is not heard of yet.
LEMMA EntryTyped ==
  ASSUME TypeOK, NEW q \in Listed
  PROVE  q \in Ids /\ neigh[q] \in Entry
BY DEF TypeOK, Listed

\* A probe, of a peer in the table or not, the first of a neighbour or not.
LEMMA ArriveKeeps ==
  ASSUME MeterInv, NEW d \in net, Arrive(d)
  PROVE  MeterInv'
<1> USE DEF MeterInv
<1>1. PICK q : q = d.id
  OBVIOUS
<1>2. PICK n : n = d.seq
  OBVIOUS
<1>3. q \in Ids /\ n \in Nat
  BY <1>1, <1>2 DEF TypeOK, Probe
<1>4. PICK known \in BOOLEAN : known <=> (q \in Listed /\ neigh[q].known)
  OBVIOUS
<1>5. /\ IF known
           THEN /\ stats' = [stats EXCEPT ![q] = Count(@, LostBetween(neigh[q].seq, n))]
                /\ errs' = [errs EXCEPT ![q] = ErrorsAfter(@, neigh[q].seq, n)]
           ELSE stats' = stats /\ errs' = errs
      /\ IF q \in Listed
           THEN /\ neigh' = [neigh EXCEPT ![q] = [seq |-> n, known |-> TRUE, seen |-> now]]
                /\ heard' = [heard EXCEPT ![q] = now]
           ELSE neigh' = neigh /\ heard' = heard
      /\ UNCHANGED <<now, seq, timers, round, report, taken>>
  BY <1>1, <1>2, <1>4 DEF Arrive, HandleProbe
<1>6. net' \subseteq net
  BY DEF Arrive
<1>7. UNCHANGED <<now, seq, lastAgg, due, probe, aggregate, round, report, taken>>
  BY <1>5 DEF timers
<1>8. PICK el \in Nat : el = Elapsed(q) /\ Probes(now - lastAgg) <= el
  BY <1>3, ProbesElapsed
<1>9. \A r \in Ids : Elapsed(r)' = Elapsed(r)
  BY <1>7 DEF Elapsed
<1>10. stats[q] \in Stats \cup {NoStats} /\ errs[q] \in Errors
  BY <1>3 DEF TypeOK
<1>11. \A r \in Ids : r # q => /\ stats'[r] = stats[r] /\ neigh'[r] = neigh[r]
                               /\ errs'[r] = errs[r] /\ heard'[r] = heard[r]
  BY <1>5 DEF TypeOK
<1>12. /\ stats' \in [Ids -> Stats \cup {NoStats}] /\ errs' \in [Ids -> Errors]
       /\ \A r \in Ids : stats'[r] # NoStats =>
            stats'[r].pl <= Elapsed(r) + errs'[r].skipped + errs'[r].late * (Elapsed(r) + 1)
       /\ \A r \in Ids : errs'[r] = NoErrors /\ stats'[r] # NoStats => stats'[r].pl = 0
  <2>1. CASE known
    <3>1. neigh[q] \in Entry /\ q \in Listed /\ neigh[q].seq \in Nat
      BY <1>4, <2>1, EntryTyped DEF Entry
    <3>2. PICK f : f = ErrorsAfter(errs[q], neigh[q].seq, n)
      OBVIOUS
    <3>3. f \in Errors /\ Follows(f, errs[q], neigh[q].seq, n)
      BY <1>3, <1>10, <3>1, <3>2, ErrorsFields
    <3>4. PICK c : c = Count(stats[q], LostBetween(neigh[q].seq, n))
      OBVIOUS
    <3>5. /\ stats[q] # NoStats => stats[q].pl <= el + errs[q].skipped + errs[q].late * (el + 1)
          /\ errs[q] = NoErrors /\ stats[q] # NoStats => stats[q].pl = 0
      BY <1>3, <1>8 DEF LossBounded, LossNeedsError
    <3>6. /\ c \in Stats
          /\ c.pl <= el + f.skipped + f.late * (el + 1)
          /\ f = NoErrors => c.pl = 0
      <4>1. PICK st, e, last : st = stats[q] /\ e = errs[q] /\ last = neigh[q].seq
        OBVIOUS
      <4>2. st \in Stats \cup {NoStats} /\ e \in Errors /\ last \in Nat
        BY <1>10, <3>1, <4>1
      <4>3. Follows(f, e, last, n) /\ c = Count(st, LostBetween(last, n))
        BY <3>3, <3>4, <4>1
      <4>4. /\ st # NoStats => st.pl <= el + e.skipped + e.late * (el + 1)
            /\ e = NoErrors /\ st # NoStats => st.pl = 0
        BY <3>5, <4>1
      <4> QED
        BY <1>3, <1>8, <3>3, <4>2, <4>3, <4>4, CountAdds, Z3
    <3>7. stats' = [stats EXCEPT ![q] = c] /\ errs' = [errs EXCEPT ![q] = f]
      BY <1>5, <2>1, <3>2, <3>4
    <3>8. stats'[q] = c /\ errs'[q] = f
      BY <1>3, <3>7 DEF TypeOK
    <3>9. stats' \in [Ids -> Stats \cup {NoStats}] /\ errs' \in [Ids -> Errors]
      BY <1>3, <3>3, <3>6, <3>7 DEF TypeOK
    <3>10. \A r \in Ids : stats'[r] # NoStats =>
            stats'[r].pl <= Elapsed(r) + errs'[r].skipped + errs'[r].late * (Elapsed(r) + 1)
      BY <1>8, <1>11, <3>6, <3>8 DEF LossBounded
    <3>11. \A r \in Ids : errs'[r] = NoErrors /\ stats'[r] # NoStats => stats'[r].pl = 0
      BY <1>11, <3>6, <3>8 DEF LossNeedsError
    <3> QED
      BY <3>9, <3>10, <3>11
  <2>2. CASE ~known
    <3>1. stats' = stats /\ errs' = errs
      BY <1>5, <2>2
    <3> QED
      BY <3>1 DEF LossBounded, LossNeedsError, TypeOK
  <2> QED
    BY <2>1, <2>2
<1>13. [seq |-> n, known |-> TRUE, seen |-> now] \in Entry /\ now \in Nat
  BY <1>3, WidthAssumption DEF TypeOK, Entry
<1>14. neigh' \in [Ids -> Entry \cup {Unlisted}] /\ heard' \in [Ids -> Nat]
  BY <1>3, <1>5, <1>13 DEF TypeOK
<1>15. q \in Listed => /\ neigh'[q] = [seq |-> n, known |-> TRUE, seen |-> now]
                       /\ heard'[q] = now
  BY <1>3, <1>5 DEF TypeOK
<1>16. q \notin Listed => neigh' = neigh /\ heard' = heard
  BY <1>5
<1>17. q \in Listed => neigh'[q] # Unlisted
  BY <1>13, <1>15, SpecialAssumption
<1>18. Listed' = Listed
  BY <1>11, <1>16, <1>17 DEF Listed
<1>19. TypeOK'
  BY <1>6, <1>7, <1>12, <1>14 DEF TypeOK
<1>20. TimesOrdered'
  BY <1>7, <1>11, <1>13, <1>15, <1>16 DEF TimesOrdered
<1>21. HeardKept'
  BY <1>11, <1>15, <1>16, <1>18 DEF HeardKept, Listed
<1>22. LossBounded'
  BY <1>9, <1>12 DEF LossBounded
<1>23. LossNeedsError'
  BY <1>12 DEF LossNeedsError
<1> QED
  BY <1>19, <1>20, <1>21, <1>22, <1>23

\* What happens in the network and to the senders is no business of the controller's.
LEMMA NetworkKeeps ==
  ASSUME MeterInv,
         net' \subseteq Probe, seq' \in [Ids -> Nat],
         UNCHANGED <<now, neigh, stats, timers, round, report, history>>
  PROVE  MeterInv'
<1> USE DEF MeterInv
<1>1. UNCHANGED <<now, neigh, stats, lastAgg, due, probe, aggregate, round, report, heard, errs, taken>>
  BY DEF timers, history
<1>2. TypeOK'
  BY <1>1 DEF TypeOK
<1>3. Listed' = Listed /\ \A q \in Ids : Elapsed(q)' = Elapsed(q)
  BY <1>1 DEF Listed, Elapsed
<1>4. TimesOrdered' /\ HeardKept' /\ LossNeedsError'
  BY <1>1, <1>3 DEF TimesOrdered, HeardKept, LossNeedsError
<1>5. LossBounded'
  BY <1>1, <1>3 DEF LossBounded
<1> QED
  BY <1>2, <1>4, <1>5

\* An update makes entries of a neighbour never seen, keeps them or removes them.
LEMMA UpdateKeeps ==
  ASSUME MeterInv, NEW kind \in {"Full", "Add", "Remove"}, NEW S \in SUBSET Ids,
         NEW p \in ProbeTimers, NEW a \in AggregateTimers, Update(kind, S, p, a)
  PROVE  MeterInv'
<1> USE DEF MeterInv
<1>1. UNCHANGED <<now, seq, net, stats, lastAgg, due, round, report, heard, errs, taken>>
  BY DEF Update, history
<1>2. probe' = p /\ aggregate' = a /\ p \in Nat \ {0} /\ a \in Nat \ {0}
  BY TimerAssumption DEF Update
<1>3. neigh' = Relist(kind, S)
  BY DEF Update
<1>4. \A q \in Ids : neigh'[q] \in {neigh[q], Fresh, Unlisted}
  BY <1>3 DEF Relist
<1>5. Fresh \in Entry /\ Fresh.seen = 0 /\ ~Fresh.known /\ Fresh # Unlisted
  <2>1. Fresh \in Entry
    BY DEF Fresh, Entry
  <2>2. Fresh.seen = 0 /\ ~Fresh.known
    BY DEF Fresh
  <2> QED
    BY <2>1, <2>2, SpecialAssumption
<1>6. neigh' \in [Ids -> Entry \cup {Unlisted}]
  <2>1. neigh' = [q \in Ids |-> neigh'[q]]
    BY <1>3 DEF Relist
  <2>2. \A q \in Ids : neigh'[q] \in Entry \cup {Unlisted}
    BY <1>4, <1>5 DEF TypeOK
  <2> QED
    BY <2>1, <2>2
<1>7. TypeOK'
  BY <1>1, <1>2, <1>6 DEF TypeOK
<1>8. \A q \in Listed' : neigh'[q] = Fresh \/ (q \in Listed /\ neigh'[q] = neigh[q])
  BY <1>4 DEF Listed
<1>9. \A q \in Ids : Elapsed(q)' = Elapsed(q)
  BY <1>1 DEF Elapsed
<1>10. TimesOrdered'
  BY <1>1 DEF TimesOrdered
<1>11. HeardKept'
  BY <1>1, <1>5, <1>8 DEF HeardKept
<1>12. LossBounded'
  BY <1>1, <1>9 DEF LossBounded
<1>13. LossNeedsError'
  BY <1>1 DEF LossNeedsError
<1> QED
  BY <1>7, <1>10, <1>11, <1>12, <1>13

\* Time passes.
LEMMA TickKeeps ==
  ASSUME MeterInv, Tick
  PROVE  MeterInv'
<1> USE DEF MeterInv
<1>1. now' = now + 1 /\ now \in Nat /\ now' \in 0..MaxClock
  BY WidthAssumption DEF Tick, TypeOK
<1>2. UNCHANGED <<seq, net, neigh, stats, lastAgg, due, probe, aggregate, round, report, heard, errs, taken>>
  BY DEF Tick, timers, history
<1>3. Listed' = Listed
  BY <1>2 DEF Listed
<1>4. TypeOK'
  BY <1>1, <1>2 DEF TypeOK
<1>5. TimesOrdered'
  BY <1>1, <1>2 DEF TimesOrdered, TypeOK
<1>6. HeardKept' /\ LossNeedsError'
  BY <1>2, <1>3 DEF HeardKept, LossNeedsError
<1>7. \A q \in Ids : stats[q] # NoStats =>
        stats[q].pl <= Elapsed(q)' + errs[q].skipped + errs[q].late * (Elapsed(q)' + 1)
  <2> SUFFICES ASSUME NEW q \in Ids, stats[q] # NoStats
               PROVE  stats[q].pl <= Elapsed(q)' + errs[q].skipped + errs[q].late * (Elapsed(q)' + 1)
    OBVIOUS
  <2>1. stats[q].pl \in Nat /\ errs[q].skipped \in Nat
    BY DEF TypeOK, Stats, Errors
  <2>2. PICK x \in Nat : x = now - taken[q]
    BY DEF TypeOK, TimesOrdered
  <2>3. now' - taken'[q] = x + 1 /\ x <= x + 1 /\ x + 1 \in Nat
    BY <1>1, <1>2, <2>2 DEF TypeOK
  <2>4. Second \in Nat \ {0} /\ 1 \in Nat \ {0} /\ Second * 1 = Second
    BY TimerAssumption
  <2>5. PICK e \in Nat : e = x \div Second
    BY <2>2, <2>4, DivFacts
  <2>6. PICK f \in Nat : f = (x + 1) \div Second
    BY <2>3, <2>4, DivFacts
  <2>7. x \div (Second * 1) <= (x + 1) \div Second
    BY <2>2, <2>3, <2>4, DivOrder
  <2>8. e <= f
    BY <2>4, <2>5, <2>6, <2>7
  <2>9. Elapsed(q) = e /\ Elapsed(q)' = f
    BY <2>2, <2>3, <2>5, <2>6 DEF Elapsed
  <2>10. PICK j \in Nat : j = errs[q].late
    BY DEF TypeOK, Errors
  <2>11. j * (e + 1) <= j * (f + 1)
    BY <2>8, <2>10, BoundGrows
  <2>12. PICK u : u = j * (e + 1)
    OBVIOUS
  <2>13. PICK v : v = j * (f + 1)
    OBVIOUS
  <2>14. u \in Nat /\ v \in Nat /\ u <= v
    BY <2>5, <2>6, <2>10, <2>11, <2>12, <2>13, BoundSteps
  <2>15. stats[q].pl <= e + errs[q].skipped + u
    BY <2>9, <2>10, <2>12 DEF LossBounded
  <2>16. stats[q].pl <= f + errs[q].skipped + v
    BY <2>1, <2>5, <2>6, <2>8, <2>14, <2>15
  <2> QED
    BY <2>9, <2>10, <2>13, <2>16
<1>8. LossBounded'
  BY <1>2, <1>7 DEF LossBounded
<1> QED
  BY <1>4, <1>5, <1>6, <1>8

\* What Silent counts: the probes since the neighbour is taken for silent.
LEMMA SilentTyped ==
  ASSUME TypeOK, TimesOrdered, HeardKept, NEW q \in Listed
  PROVE  Silent(q) = Probes(now - SilentSince(q)) /\ Silent(q) \in Nat
<1>1. q \in Ids /\ heard[q] \in Nat /\ heard[q] <= now
  BY DEF Listed, TypeOK, TimesOrdered
<1>2. neigh[q].seen = IF neigh[q].known THEN heard[q] ELSE 0
  BY DEF HeardKept
<1>3. lastAgg \in Nat /\ lastAgg <= now /\ now \in Nat
  BY WidthAssumption DEF TypeOK
<1>4. (IF lastAgg > neigh[q].seen THEN lastAgg ELSE neigh[q].seen) = SilentSince(q)
  BY <1>1, <1>2, <1>3 DEF SilentSince
<1>5. now - SilentSince(q) \in Nat
  BY <1>1, <1>3 DEF SilentSince
<1> QED
  BY <1>4, <1>5, ProbesTyped DEF Silent

\* The aggregate takes the statistics of every listed neighbour.
LEMMA AggregateKeeps ==
  ASSUME MeterInv, Aggregate
  PROVE  MeterInv'
<1> USE DEF MeterInv
<1>1. /\ lastAgg' = now /\ due' = due + Second * StartAggregate /\ round' = round + 1
      /\ UNCHANGED <<now, seq, net, neigh, probe, aggregate, heard>>
  BY DEF Aggregate
<1>2. \A q \in Ids : /\ q \in Listed => /\ stats'[q] = NoStats /\ taken'[q] = now
                                        /\ errs'[q] = NoErrors
                     /\ q \notin Listed => /\ stats'[q] = stats[q] /\ taken'[q] = taken[q]
                                           /\ errs'[q] = errs[q]
  BY DEF Aggregate, StatsLeft
<1>3. /\ stats' \in [Ids -> Stats \cup {NoStats}] /\ taken' \in [Ids -> Nat]
      /\ errs' \in [Ids -> Errors]
  <2>1. NoErrors \in Errors
    BY DEF NoErrors, Errors
  <2>2. now \in Nat
    BY WidthAssumption DEF TypeOK
  <2> QED
    BY <2>1, <2>2 DEF Aggregate, StatsLeft, TypeOK
<1>4. Listed' = Listed
  BY <1>1 DEF Listed
<1>5. report' = [q \in Listed |-> Measurement(stats[q], Silent(q))]
  BY DEF Aggregate
<1>6. \A q \in Listed : Measurement(stats[q], Silent(q)) \in Stats
  <2> SUFFICES ASSUME NEW q \in Listed PROVE Measurement(stats[q], Silent(q)) \in Stats
    OBVIOUS
  <2>1. PICK k \in Nat : k = Silent(q)
    BY SilentTyped
  <2>2. stats[q] \in Stats \cup {NoStats}
    BY DEF TypeOK, Listed
  <2>3. Measurement(stats[q], k) \in Stats
    BY <2>1, <2>2 DEF Measurement, Stats
  <2> QED
    BY <2>1, <2>3
<1>7. DOMAIN report' \subseteq Ids /\ \A q \in DOMAIN report' : report'[q] \in Stats
  BY <1>5, <1>6 DEF Listed
<1>8. due' \in Nat
  <2>1. Second * StartAggregate \in Nat
    BY TimerAssumption
  <2> QED
    BY <1>1, <2>1 DEF TypeOK
<1>9. TypeOK'
  BY <1>1, <1>3, <1>7, <1>8 DEF TypeOK
<1>10. TimesOrdered'
  BY <1>1, <1>2, WidthAssumption DEF TimesOrdered, TypeOK
<1>11. HeardKept'
  BY <1>1, <1>4 DEF HeardKept
<1>12. \A q \in Ids : q \notin Listed => Elapsed(q)' = Elapsed(q)
  BY <1>1, <1>2 DEF Elapsed
<1>13. LossBounded'
  BY <1>2, <1>12 DEF LossBounded
<1>14. LossNeedsError'
  BY <1>2 DEF LossNeedsError
<1> QED
  BY <1>9, <1>10, <1>11, <1>13, <1>14

----------------------------------------------------------------------------
(* The theorems. *)

\* Every step keeps the invariant.
LEMMA NextKeeps == MeterInv /\ [Next]_vars => MeterInv'
<1> SUFFICES ASSUME MeterInv, [Next]_vars
             PROVE  MeterInv'
  OBVIOUS
<1>1. TypeOK
  BY DEF MeterInv
<1>2. CASE \E d \in net : Arrive(d)
  BY <1>2, ArriveKeeps
<1>3. CASE \E d \in net : Lose(d)
  <2>1. net' \subseteq Probe /\ seq' \in [Ids -> Nat]
    BY <1>1, <1>3 DEF Lose, TypeOK
  <2> QED
    BY <1>3, <2>1, NetworkKeeps DEF Lose
<1>4. CASE \E q \in Ids : Send(q)
  <2> PICK q \in Ids : Send(q)
    BY <1>4
  <2>1. seq[q] \in Nat
    BY <1>1 DEF TypeOK
  <2>2. [id |-> q, seq |-> seq[q]] \in Probe
    BY <2>1 DEF Probe
  <2>3. net' \subseteq Probe /\ seq' \in [Ids -> Nat]
    BY <1>1, <2>1, <2>2 DEF Send, TypeOK
  <2> QED
    BY <2>3, NetworkKeeps DEF Send
<1>5. CASE \E q \in Ids : SenderRestart(q)
  <2>1. net' \subseteq Probe /\ seq' \in [Ids -> Nat]
    BY <1>1, <1>5 DEF SenderRestart, TypeOK
  <2> QED
    BY <1>5, <2>1, NetworkKeeps DEF SenderRestart
<1>6. CASE \E kind \in {"Full", "Add", "Remove"}, S \in SUBSET Ids,
              p \in ProbeTimers, a \in AggregateTimers : Update(kind, S, p, a)
  BY <1>6, UpdateKeeps
<1>7. CASE Aggregate
  BY <1>7, AggregateKeeps
<1>8. CASE Tick
  BY <1>8, TickKeeps
<1>9. CASE UNCHANGED vars
  <2>1. net' \subseteq Probe /\ seq' \in [Ids -> Nat]
    BY <1>1, <1>9 DEF vars, TypeOK
  <2> QED
    BY <1>9, <2>1, NetworkKeeps DEF vars
<1> QED
  BY <1>2, <1>3, <1>4, <1>5, <1>6, <1>7, <1>8, <1>9 DEF Next

\* The invariant holds in every reachable state.
THEOREM MeterInvariant == Spec => []MeterInv
<1> QED
  BY InitMeter, NextKeeps, PTL DEF Spec

\* The state keeps its shape: no difference and no remainder leaves the naturals.
THEOREM MeterTyped == Spec => []TypeOK
<1>1. MeterInv => TypeOK
  BY DEF MeterInv
<1> QED
  BY <1>1, MeterInvariant, PTL

\* Whatever arrives, how often and in which order, whatever senders restart, and for
\* every width of the counters that holds the clock: the count of lost probes is at most
\* what the time since the neighbour was last reported allows, the numbers skipped, and
\* for each datagram that came late once more what that time allows.  Repeated datagrams,
\* however many, are within the first of the three.
THEOREM CountBounded == Spec => []LossBounded
<1>1. MeterInv => LossBounded
  BY DEF MeterInv
<1> QED
  BY <1>1, MeterInvariant, PTL

\* An aggregate is the only step that reports.
LEMMA RoundMoves ==
  ASSUME MeterInv, [Next]_vars, round' # round
  PROVE  Aggregate
<1>1. \A d \in net : ~Arrive(d) /\ ~Lose(d)
  BY DEF Arrive, HandleProbe, Lose
<1>2. \A q \in Ids : ~Send(q) /\ ~SenderRestart(q)
  BY DEF Send, SenderRestart
<1>3. \A kind, S, p, a : ~Update(kind, S, p, a)
  BY DEF Update
<1>4. ~Tick /\ ~UNCHANGED vars
  BY DEF Tick, vars
<1> QED
  BY <1>1, <1>2, <1>3, <1>4 DEF Next

\* A measurement counts the silence, and what the statistics say beside it.
LEMMA Measured ==
  ASSUME MeterInv, Aggregate, NEW q \in Listed
  PROVE  /\ Silent(q) \in Nat /\ report'[q].pl \in Nat /\ report'[q].pl >= Silent(q)
         /\ (stats[q] # NoStats => stats[q].pl = 0) => report'[q].pl = Silent(q)
<1>1. PICK k \in Nat : k = Silent(q)
  BY SilentTyped DEF MeterInv
<1>2. report'[q] = Measurement(stats[q], k)
  BY <1>1 DEF Aggregate
<1>3. stats[q] \in Stats \cup {NoStats}
  BY DEF MeterInv, TypeOK, Listed
<1>4. CASE stats[q] = NoStats
  BY <1>1, <1>2, <1>4 DEF Measurement
<1>5. CASE stats[q] # NoStats
  <2>1. stats[q] \in Stats /\ stats[q].pl \in Nat
    BY <1>3, <1>5 DEF Stats
  <2>2. report'[q] = [stats[q] EXCEPT !.pl = @ + k]
    BY <1>2, <1>5 DEF Measurement
  <2>3. report'[q].pl = stats[q].pl + k
    BY <2>1, <2>2 DEF Stats
  <2> QED
    BY <1>1, <1>5, <2>1, <2>3
<1> QED
  BY <1>4, <1>5

\* A neighbour that was silent for the whole interval is reported with as many lost
\* probes as fit into it, also when it was listed anew meanwhile.
THEOREM SilenceAlwaysReported == Spec => SilenceReported
<1>1. MeterInv /\ [Next]_vars =>
        (round' # round =>
           \A q \in Listed : heard[q] <= lastAgg => report'[q].pl >= Probes(now - lastAgg))
  <2> SUFFICES ASSUME MeterInv, [Next]_vars, round' # round, NEW q \in Listed, heard[q] <= lastAgg
               PROVE  report'[q].pl >= Probes(now - lastAgg)
    OBVIOUS
  <2>1. report'[q].pl >= Silent(q)
    BY RoundMoves, Measured
  <2>2. heard[q] \in Nat /\ lastAgg \in Nat
    BY DEF MeterInv, TypeOK, Listed
  <2>3. SilentSince(q) = lastAgg
    BY <2>2 DEF SilentSince
  <2>4. Silent(q) = Probes(now - lastAgg)
    BY <2>3, SilentTyped DEF MeterInv
  <2> QED
    BY <2>1, <2>4
<1> QED
  BY <1>1, MeterInvariant, PTL DEF Spec, SilenceReported

\* A neighbour without a sequence error is reported with the probes of one silence as
\* lost: since its last probe, or, if its entry was made anew after that, since the
\* last aggregate.
THEOREM LossIsOneSilence == Spec => LossIsSilence
<1>1. MeterInv /\ [Next]_vars =>
        (round' # round =>
           \A q \in Listed : errs[q] = NoErrors => report'[q].pl = Probes(now - SilentSince(q)))
  <2> SUFFICES ASSUME MeterInv, [Next]_vars, round' # round, NEW q \in Listed, errs[q] = NoErrors
               PROVE  report'[q].pl = Probes(now - SilentSince(q))
    OBVIOUS
  <2>1. stats[q] # NoStats => stats[q].pl = 0
    BY DEF MeterInv, LossNeedsError, Listed
  <2>2. report'[q].pl = Silent(q)
    BY <2>1, RoundMoves, Measured
  <2> QED
    BY <2>2, SilentTyped DEF MeterInv
<1> QED
  BY <1>1, MeterInvariant, PTL DEF Spec, LossIsSilence

\* Whatever the two clocks show, and whichever is ahead, the jitter of two probes is at
\* most the difference of their delays: the offset between the clocks can only hide
\* jitter (peers_controller.rs:159-170).
THEOREM JitterBounded ==
  ASSUME NEW at1 \in Int, NEW ts1 \in Int, NEW at2 \in Int, NEW ts2 \in Int
  PROVE  Jitter(Latency(at2, ts2), Latency(at1, ts1)) <= Distance(at2 - ts2, at1 - ts1)
BY DEF Jitter, Latency, Distance
=============================================================================
