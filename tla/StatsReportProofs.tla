--------------------------- MODULE StatsReportProofs ---------------------------
(* Theorems about StatsReport, for any number of operators, requests and      *)
(* processes, any capacity, and any way to divide a day.                      *)
EXTENDS StatsReport, FiniteSetTheorems, TLAPS

LEMMA LiveIsFinite ==
    ASSUME TypeOK
    PROVE  IsFiniteSet(Live) /\ Cardinality(Live) \in Nat
<1>1. IsFiniteSet(1..created)
  BY FS_Interval DEF TypeOK
<1> QED
  BY <1>1, FS_Subset, FS_CardinalityType DEF TypeOK

LEMMA CurrentIsReport ==
    ASSUME TypeOK
    PROVE  Current \in Report(Live) /\ IsReport(Current)
<1>1. [i \in Live |-> entries[i].expires] \in [Live -> Int]
  BY DEF TypeOK
<1>2. Current \in Report(Live)
  BY <1>1, LiveIsFinite DEF TypeOK, Current, Report
<1>3. Live \in SUBSET (1..MaxCreates)
  BY ReportAssumption DEF TypeOK
<1> QED
  BY <1>2, <1>3 DEF IsReport

\* What gjfy stats prints of a duration is less than it by under an hour, for
\* any division of a day: nothing lasts shorter than printed.
THEOREM RoundedDown ==
    ASSUME NEW d \in Nat
    PROVE  /\ humanDuration(d) \in Nat
           /\ humanDuration(d) <= d /\ d < humanDuration(d) + Hour
<1> DEFINE q == d \div Hour
           days == q \div DayHours
           hours == q % DayHours
           minutes == d % Hour
<1> USE ReportAssumption
<1>1. q \in Nat /\ minutes \in 0..Hour-1 /\ d = Hour * q + minutes
  OBVIOUS
<1> HIDE DEF q
<1>2. days \in Nat /\ hours \in 0..DayHours-1 /\ q = DayHours * days + hours
  BY <1>1
<1> HIDE DEF days, hours, minutes
<1>3. days * Day + hours * Hour = Hour * q
  <2>1. Hour * (DayHours * days + hours) = Hour * (DayHours * days) + Hour * hours
    BY <1>2
  <2>2. Hour * (DayHours * days) = days * (Hour * DayHours) /\ Hour * hours = hours * Hour
    BY <1>2
  <2> QED
    BY <1>2, <2>1, <2>2 DEF Day
<1>4. Hour * q \in Nat
  BY <1>1
<1>5. humanDuration(d) = IF days > 0 THEN days * Day + hours * Hour
                         ELSE IF hours > 0 THEN hours * Hour + minutes
                         ELSE minutes
  BY DEF humanDuration, days, hours, minutes, q
<1>6. CASE days > 0
  BY <1>1, <1>3, <1>4, <1>5, <1>6
<1>7. CASE ~(days > 0)
  <2>1. days = 0
    BY <1>2, <1>7
  <2>2. q = hours
    BY <1>2, <2>1
  <2>3. CASE hours > 0
    <3>1. humanDuration(d) = hours * Hour + minutes
      BY <1>5, <1>7, <2>3
    <3>2. hours * Hour = Hour * q
      BY <2>2, <1>2
    <3> QED
      BY <3>1, <3>2, <1>1, <1>4
  <2>4. CASE ~(hours > 0)
    <3>1. q = 0
      BY <1>2, <2>2, <2>4
    <3>2. Hour * q = 0
      BY <3>1
    <3> QED
      BY <1>1, <1>5, <1>7, <2>4, <3>2
  <2> QED
    BY <2>3, <2>4
<1> QED
  BY <1>6, <1>7

-----------------------------------------------------------------------------

\* Create adds the entry created', and nothing else.
LEMMA CreateTyped ==
    ASSUME TypeOK, NEW r \in Requests, Create(r)
    PROVE  /\ TypeOK' /\ Live' = Live \cup {created'}
           /\ Cardinality(Live') = Cardinality(Live) + 1
           /\ \A i \in Live : entries'[i] = entries[i]
<1> USE ReportAssumption
<1>1. PICK max \in Budgets, valid \in Validities :
        entries' = [j \in Live \cup {created'} |->
                      IF j \in Live THEN entries[j]
                      ELSE [left |-> max, expires |-> clock + Day * valid]]
  BY DEF Create
<1>2. clock + Day * valid \in Int /\ max \in Nat \ {0}
  <2>1. Day \in Nat /\ valid \in Nat /\ max \in Nat \ {0} /\ clock \in Nat
    BY DEF Day, TypeOK
  <2>2. Day * valid \in Nat
    BY <2>1
  <2> QED
    BY <2>1, <2>2
<1>3. entries' \in [Live \cup {created'} -> [left : Nat \ {0}, expires : Int]]
  BY <1>1, <1>2 DEF TypeOK
<1>4. DOMAIN entries' = Live \cup {created'}
  BY <1>1
<1>5. created' = created + 1 /\ created' \in 0..MaxCreates
  BY DEF Create, TypeOK
<1>6. TypeOK'
  BY <1>3, <1>4, <1>5 DEF Create, Acts, opVars, TypeOK, Live, IsReport, Report
<1>7. Cardinality(Live') = Cardinality(Live) + 1
  <2>1. created' \notin Live
    BY <1>5 DEF TypeOK
  <2> QED
    BY <1>4, <2>1, LiveIsFinite, FS_AddElement DEF Live
<1> QED
  BY <1>1, <1>4, <1>6, <1>7 DEF Live

\* Claim takes away one entry, or none.
LEMMA ClaimTyped ==
    ASSUME TypeOK, NEW r \in Requests, NEW i \in Live, Claim(r, i)
    PROVE  /\ TypeOK'
           /\ \/ Live' = Live \ {i} /\ burned' = burned \cup {i}
                 /\ Cardinality(Live') = Cardinality(Live) - 1
              \/ Live' = Live /\ burned' = burned
           /\ \A j \in Live' : entries'[j].expires = entries[j].expires
<1> USE ReportAssumption
<1>1. CASE LastClick(i)
  <2>1. entries' = [j \in Live \ {i} |-> entries[j]] /\ burned' = burned \cup {i}
    BY <1>1 DEF Claim
  <2>2. DOMAIN entries' = Live \ {i}
    BY <2>1
  <2>3. entries' \in [Live \ {i} -> [left : Nat \ {0}, expires : Int]]
    BY <2>1 DEF TypeOK
  <2>4. TypeOK'
    BY <2>1, <2>2, <2>3 DEF Claim, Acts, opVars, TypeOK, Live, IsReport, Report
  <2>5. Cardinality(Live') = Cardinality(Live) - 1
    BY <2>2, LiveIsFinite, FS_RemoveElement DEF Live
  <2> QED
    BY <2>1, <2>2, <2>4, <2>5 DEF Live
<1>2. CASE ~LastClick(i)
  <2>1. entries' = [entries EXCEPT ![i].left = @ - 1] /\ burned' = burned
    BY <1>2 DEF Claim
  <2>2. entries[i].left \in Nat \ {0, 1} /\ entries[i].expires \in Int
    BY <1>2 DEF LastClick, TypeOK
  <2>3. entries' \in [Live -> [left : Nat \ {0}, expires : Int]]
    BY <2>1, <2>2 DEF TypeOK, Live
  <2>4. DOMAIN entries' = Live
    BY <2>1 DEF Live
  <2>5. TypeOK'
    BY <2>1, <2>3, <2>4 DEF Claim, Acts, opVars, TypeOK, Live, IsReport, Report
  <2>6. \A j \in Live : entries'[j].expires = entries[j].expires
    BY <2>1 DEF TypeOK, Live
  <2> QED
    BY <2>1, <2>4, <2>5, <2>6 DEF Live
<1> QED
  BY <1>1, <1>2

LEMMA SweepTyped ==
    ASSUME TypeOK, Sweep
    PROVE  /\ TypeOK' /\ Live' = Live \ Past
           /\ Cardinality(Past) \in Nat
           /\ Cardinality(Live') = Cardinality(Live) - Cardinality(Past)
<1>1. entries' = [i \in Live \ Past |-> entries[i]]
  BY DEF Sweep
<1>2. Live' = Live \ Past
  BY <1>1 DEF Live
<1>3. IsFiniteSet(Past) /\ Cardinality(Past) \in Nat
  BY LiveIsFinite, FS_Subset, FS_CardinalityType DEF Past
<1>4. Cardinality(Live') = Cardinality(Live) - Cardinality(Past)
  <2>1. Live \cap Past = Past
    BY DEF Past
  <2> QED
    BY <1>2, <2>1, LiveIsFinite, FS_Difference
<1>5. entries' \in [Live \ Past -> [left : Nat \ {0}, expires : Int]]
  BY <1>1 DEF TypeOK
<1> QED
  BY <1>1, <1>2, <1>3, <1>4, <1>5 DEF Sweep, opVars, TypeOK, Live, IsReport,
     Report

LEMMA OperatorTyped ==
    ASSUME TypeOK, NEW o \in Operators, Fetch(o) \/ Show(o) \/ Leave(o)
    PROVE  TypeOK'
<1> USE ReportAssumption
<1>1. ASSUME Fetch(o) PROVE TypeOK'
  BY <1>1, CurrentIsReport DEF Fetch, Goto, storeVars, TypeOK, Live, IsReport,
     Report
<1>2. ASSUME Show(o) PROVE TypeOK'
  <2>1. until' \in [Operators -> Int \cup {None}]
    <3>1. CASE UNCHANGED until
      BY <3>1 DEF TypeOK
    <3>2. ASSUME NEW i \in DOMAIN rep[o].entries,
                 until' = [until EXCEPT ![o] = Promise(rep[o].entries[i])]
          PROVE  until' \in [Operators -> Int \cup {None}]
      <4>1. rep[o].entries[i] \in Int
        BY <1>2, <3>2 DEF TypeOK, IsReport, Report, Show
      <4>2. Promise(rep[o].entries[i]) \in Int \cup {None}
        <5> DEFINE t == rep[o].entries[i]
        <5>1. CASE t < clock
          BY <5>1 DEF Promise
        <5>2. CASE ~(t < clock)
          <6>1. t - clock \in Nat
            BY <4>1, <5>2 DEF TypeOK
          <6>2. humanDuration(t - clock) \in Nat
            BY <6>1, RoundedDown
          <6> QED
            BY <5>2, <6>2 DEF Promise, TypeOK
        <5> QED
          BY <5>1, <5>2
      <4> QED
        BY <3>2, <4>2 DEF TypeOK
    <3> QED
      BY <1>2, <3>1, <3>2 DEF Show
  <2> QED
    BY <1>2, <2>1 DEF Show, Goto, storeVars, TypeOK, Live, IsReport, Report
<1>3. ASSUME Leave(o) PROVE TypeOK'
  BY <1>3 DEF Leave, Goto, storeVars, TypeOK, Live, IsReport, Report
<1> QED
  BY <1>1, <1>2, <1>3

\* StatsReport's type invariant.
THEOREM TypeCorrect == Spec => []TypeOK
<1> USE ReportAssumption
<1>1. Init => TypeOK
  BY DEF Init, TypeOK, Live
<1>2. TypeOK /\ [Next]_vars => TypeOK'
  <2> SUFFICES ASSUME TypeOK, [Next]_vars PROVE TypeOK'
    OBVIOUS
  <2>1. CASE UNCHANGED vars
    BY <2>1 DEF vars, storeVars, opVars, TypeOK, Live, IsReport, Report
  <2>2. CASE Tick
    BY <2>2 DEF Tick, storeVars, opVars, TypeOK, Live, IsReport, Report
  <2>3. CASE Start
    BY <2>3 DEF Start, StartTime, opVars, TypeOK, Live, IsReport, Report
  <2>4. CASE Sweep
    BY <2>4, SweepTyped
  <2>5. CASE Notice
    <3>1. \A S : S \subseteq Requests => Cardinality(S) \in Nat
      BY FS_Subset, FS_CardinalityType
    <3> QED
      BY <2>5, <3>1, LiveIsFinite DEF Notice, Stop, storeVars, opVars, TypeOK,
         Live, IsReport, Report
  <2>6. CASE CloseStats \/ BeginDrain \/ Exit \/ Crash
    BY <2>6 DEF CloseStats, BeginDrain, Exit, Crash, Stop, storeVars, opVars,
       TypeOK, Live, IsReport, Report
  <2>7. ASSUME NEW r \in Requests, Accept(r) \/ Other(r) PROVE TypeOK'
    <3>1. CASE Accept(r)
      <4>1. inflight' \subseteq Requests /\ loose' \in Nat
        BY <3>1 DEF Accept, TypeOK
      <4> QED
        BY <3>1, <4>1 DEF Accept, storeVars, opVars, TypeOK, Live, IsReport,
           Report
    <3>2. CASE Other(r)
      <4>1. inflight' \subseteq Requests
        BY <3>2 DEF Other, Acts, TypeOK
      <4> QED
        BY <3>2, <4>1 DEF Other, storeVars, opVars, TypeOK, Live, IsReport,
           Report
    <3> QED
      BY <2>7, <3>1, <3>2
  <2>8. ASSUME NEW r \in Requests, Create(r) PROVE TypeOK'
    BY <2>8, CreateTyped
  <2>9. ASSUME NEW r \in Requests, NEW i \in Live, Claim(r, i) PROVE TypeOK'
    BY <2>9, ClaimTyped
  <2>10. ASSUME NEW o \in Operators, Fetch(o) \/ Show(o) \/ Leave(o)
         PROVE  TypeOK'
    BY <2>10, OperatorTyped
  <2> QED
    BY <2>1, <2>2, <2>3, <2>4, <2>5, <2>6, <2>7, <2>8, <2>9, <2>10 DEF Next
<1> QED
  BY <1>1, <1>2, PTL DEF Spec

-----------------------------------------------------------------------------

\* Every report names a start that has been, and can be followed by what the
\* store holds now if it is of the process that runs now.
ReportInv ==
    \A o \in Operators :
        rep[o] # None =>
            /\ rep[o].started <= started
            /\ rep[o].started = started => Follows(Current, rep[o])

LEMMA ReportInvKept ==
    ASSUME TypeOK, TypeOK', ReportInv, [Next]_vars
    PROVE  ReportInv'
<1> USE ReportAssumption
<1>0. /\ \A o \in Operators : rep[o] # None =>
            /\ rep[o].started \in Nat /\ rep[o].live \in Nat
            /\ rep[o].created \in Nat /\ rep[o].claimed \in Nat
            /\ rep[o].expired \in Nat
      /\ created \in Nat /\ claimed \in Nat /\ expired \in Nat
      /\ Cardinality(Live) \in Nat /\ started \in Nat /\ clock \in Nat
  BY LiveIsFinite DEF TypeOK, IsReport, Report
<1>1. ASSUME UNCHANGED <<storeVars, started, rep>> PROVE ReportInv'
  BY <1>1 DEF ReportInv, Follows, Current, storeVars, Live
<1>2. CASE UNCHANGED vars \/ Tick \/ CloseStats \/ BeginDrain \/ Exit \/ Crash
           \/ Notice
  BY <1>1, <1>2 DEF vars, opVars, Tick, CloseStats, BeginDrain, Exit, Crash,
     Notice, Stop
<1>3. CASE Start
  <2>1. started' = clock /\ clock > started /\ rep' = rep
    BY <1>3 DEF Start, StartTime, opVars
  <2> QED
    BY <1>0, <2>1 DEF ReportInv
<1>4. CASE Sweep
  <2>1. /\ created' = created /\ claimed' = claimed /\ started' = started
        /\ rep' = rep /\ expired' = expired + Cardinality(Past)
    BY <1>4 DEF Sweep, opVars
  <2>2. /\ Cardinality(Past) \in Nat
        /\ Cardinality(Live') = Cardinality(Live) - Cardinality(Past)
    BY <1>4, SweepTyped
  <2> QED
    BY <1>0, <2>1, <2>2 DEF ReportInv, Follows, Current
<1>5. ASSUME NEW r \in Requests, Accept(r) \/ Other(r) PROVE ReportInv'
  BY <1>1, <1>5 DEF Accept, Other, opVars
<1>6. ASSUME NEW r \in Requests, Create(r) PROVE ReportInv'
  <2>1. /\ created' = created + 1 /\ claimed' = claimed /\ expired' = expired
        /\ started' = started /\ rep' = rep
    BY <1>6 DEF Create, opVars
  <2>2. Cardinality(Live') = Cardinality(Live) + 1
    BY <1>6, CreateTyped
  <2> QED
    BY <1>0, <2>1, <2>2 DEF ReportInv, Follows, Current
<1>7. ASSUME NEW r \in Requests, NEW i \in Live, Claim(r, i) PROVE ReportInv'
  <2>1. /\ created' = created /\ claimed' = claimed + 1 /\ expired' = expired
        /\ started' = started /\ rep' = rep
    BY <1>7 DEF Claim, opVars
  <2>2. Cardinality(Live') \in {Cardinality(Live), Cardinality(Live) - 1}
    BY <1>7, ClaimTyped
  <2> QED
    BY <1>0, <2>1, <2>2 DEF ReportInv, Follows, Current
<1>8. ASSUME NEW o \in Operators, Fetch(o) PROVE ReportInv'
  <2>1. /\ rep' = [rep EXCEPT ![o] = Current] /\ DOMAIN rep = Operators
        /\ UNCHANGED <<storeVars, started>>
    BY <1>8 DEF Fetch, TypeOK
  <2>2. Current.started = started /\ Follows(Current, Current)
    BY <1>0 DEF Current, Follows
  <2>3. Current' = Current
    BY <2>1 DEF Current, storeVars, Live
  <2> QED
    BY <2>1, <2>2, <2>3, <1>0 DEF ReportInv, Follows
<1>9. ASSUME NEW o \in Operators, Show(o) PROVE ReportInv'
  BY <1>1, <1>9 DEF Show
<1>10. ASSUME NEW o \in Operators, Leave(o) PROVE ReportInv'
  <2>1. /\ rep' = [rep EXCEPT ![o] = None] /\ DOMAIN rep = Operators
        /\ UNCHANGED <<storeVars, started>>
    BY <1>10 DEF Leave, TypeOK
  <2>2. Current' = Current
    BY <2>1 DEF Current, storeVars, Live
  <2> QED
    BY <2>1, <2>2 DEF ReportInv, Follows
<1> QED
  BY <1>2, <1>3, <1>4, <1>5, <1>6, <1>7, <1>8, <1>9, <1>10 DEF Next

\* Two reports that name one start can be put in an order in which their
\* numbers explain each other, however many processes have come and gone.
THEOREM ReportsComparable == Spec => []ReportsAgree
<1>1. Init => ReportInv
  BY DEF Init, ReportInv
<1>2. TypeOK /\ TypeOK' /\ ReportInv /\ [Next]_vars => ReportInv'
  BY ReportInvKept
<1>3. ReportInv => ReportsAgree
  BY DEF ReportInv, ReportsAgree
<1> QED
  BY <1>1, <1>2, <1>3, TypeCorrect, PTL DEF Spec

-----------------------------------------------------------------------------

\* What the requests still in flight may do to the number is allowed for, too.
LossInv ==
    /\ stop = "up" => noted = None
    /\ noted # None =>
          /\ noted - Cardinality(Live) + Cardinality(inflight) <= loose
          /\ Cardinality(Live) - noted + Cardinality(inflight) <= loose

LEMMA InflightIsFinite ==
    ASSUME NEW S \in SUBSET Requests
    PROVE  IsFiniteSet(S) /\ Cardinality(S) \in Nat
BY FS_Subset, FS_CardinalityType, ReportAssumption

LEMMA OneLess ==
    ASSUME TypeOK, NEW r \in Requests, Acts(r)
    PROVE  Cardinality(inflight') = Cardinality(inflight) - 1
BY InflightIsFinite, FS_RemoveElement DEF Acts, TypeOK

LEMMA LossInvKept ==
    ASSUME TypeOK, LossInv, [Next]_vars
    PROVE  LossInv'
<1> USE ReportAssumption
<1>0. /\ Cardinality(Live) \in Nat /\ Cardinality(inflight) \in Nat
      /\ noted # None => noted \in Nat
      /\ loose \in Nat
  BY LiveIsFinite, InflightIsFinite DEF TypeOK
<1>1. CASE UNCHANGED vars \/ Tick
  BY <1>1 DEF vars, Tick, storeVars, Live, LossInv
<1>2. CASE Start
  BY <1>2 DEF Start, LossInv
<1>3. CASE Notice
  <2>1. /\ noted' = Cardinality(Live) /\ loose' = Cardinality(inflight)
        /\ stop' = "close" /\ inflight' = inflight /\ entries' = entries
    BY <1>3 DEF Notice, Stop, storeVars
  <2> QED
    BY <1>0, <2>1 DEF LossInv, Live
<1>4. CASE CloseStats \/ BeginDrain
  BY <1>4 DEF CloseStats, BeginDrain, Stop, storeVars, Live, LossInv
<1>5. CASE Exit \/ Crash
  <2>1. Cardinality(inflight') = 0
    BY <1>5, FS_EmptySet DEF Exit, Crash
  <2>2. UNCHANGED <<noted, loose, entries>> /\ stop' # "up"
    BY <1>5 DEF Exit, Crash, Stop, storeVars
  <2> QED
    BY <1>0, <2>1, <2>2 DEF LossInv, Live
<1>6. CASE Sweep
  <2>1. /\ noted' = noted /\ stop' = stop /\ inflight' = inflight
        /\ noted # None => loose' = loose + Cardinality(Past)
    BY <1>6 DEF Sweep
  <2>2. /\ Cardinality(Past) \in Nat
        /\ Cardinality(Live') = Cardinality(Live) - Cardinality(Past)
    BY <1>6, SweepTyped
  <2> QED
    BY <1>0, <2>1, <2>2 DEF LossInv
<1>7. ASSUME NEW r \in Requests, Accept(r) PROVE LossInv'
  <2>1. /\ stop \in {"up", "close", "drain"} /\ entries' = entries
        /\ noted' = noted /\ stop' = stop /\ inflight' = inflight \cup {r}
        /\ noted # None => loose' = loose + 1
    BY <1>7 DEF Accept, Accepting, storeVars
  <2>2. Cardinality(inflight') \in {Cardinality(inflight), Cardinality(inflight) + 1}
    BY <2>1, InflightIsFinite, FS_AddElement DEF TypeOK
  <2> QED
    BY <1>0, <2>1, <2>2 DEF LossInv, Live
<1>8. ASSUME NEW r \in Requests, Other(r) PROVE LossInv'
  <2>1. UNCHANGED <<noted, stop, loose, entries>>
    BY <1>8 DEF Other, storeVars
  <2>2. Cardinality(inflight') = Cardinality(inflight) - 1
    BY <1>8, OneLess DEF Other
  <2> QED
    BY <1>0, <2>1, <2>2 DEF LossInv, Live
<1>9. ASSUME NEW r \in Requests, Create(r) PROVE LossInv'
  <2>1. UNCHANGED <<noted, stop, loose>>
    BY <1>9 DEF Create
  <2>2. Cardinality(inflight') = Cardinality(inflight) - 1
    BY <1>9, OneLess DEF Create
  <2>3. Cardinality(Live') = Cardinality(Live) + 1
    BY <1>9, CreateTyped
  <2> QED
    BY <1>0, <2>1, <2>2, <2>3 DEF LossInv
<1>10. ASSUME NEW r \in Requests, NEW i \in Live, Claim(r, i) PROVE LossInv'
  <2>1. UNCHANGED <<noted, stop, loose>>
    BY <1>10 DEF Claim
  <2>2. Cardinality(inflight') = Cardinality(inflight) - 1
    BY <1>10, OneLess DEF Claim
  <2>3. Cardinality(Live') \in {Cardinality(Live), Cardinality(Live) - 1}
    BY <1>10, ClaimTyped
  <2> QED
    BY <1>0, <2>1, <2>2, <2>3 DEF LossInv
<1>11. ASSUME NEW o \in Operators, Fetch(o) \/ Show(o) \/ Leave(o)
       PROVE  LossInv'
  BY <1>11 DEF Fetch, Show, Leave, storeVars, Live, LossInv
<1> QED
  BY <1>1, <1>2, <1>3, <1>4, <1>5, <1>6, <1>7, <1>8, <1>9, <1>10, <1>11 DEF Next

\* The number in the journal is off by no more than the requests let in before
\* the listener was closed, and the expiries, for any number of either.
THEOREM LossIsExplained == Spec => []LossExplained
<1>1. Init => LossInv
  BY DEF Init, LossInv
<1>2. TypeOK /\ LossInv /\ [Next]_vars => LossInv'
  BY LossInvKept
<1>3. TypeOK /\ LossInv => LossExplained
  <2> SUFFICES ASSUME TypeOK, LossInv, noted # None PROVE LossExplained
    BY DEF LossExplained
  <2>1. /\ Cardinality(Live) \in Nat /\ Cardinality(inflight) \in Nat
        /\ noted \in Nat /\ loose \in Nat
    BY LiveIsFinite, InflightIsFinite DEF TypeOK
  <2> QED
    BY <2>1 DEF LossInv, LossExplained
<1> QED
  BY <1>1, <1>2, <1>3, TypeCorrect, PTL DEF Spec

-----------------------------------------------------------------------------

\* A listed secret is where it was, or used up, or was swept after its time.
Whereabouts(o, i) ==
    \/ i \in burned
    \/ i \in Live /\ entries[i].expires = rep[o].entries[i]
    \/ clock > rep[o].entries[i]

PromiseInv ==
    \A o \in Operators :
        /\ fetch[o] # "idle" =>
             /\ rep[o].started <= started
             /\ rep[o].started = started =>
                  \A i \in DOMAIN rep[o].entries :
                      i \in 1..created /\ Whereabouts(o, i)
        /\ until[o] # None =>
             /\ fetch[o] = "shown" /\ until[o] \in Int
             /\ \A i \in DOMAIN rep[o].entries : until[o] <= rep[o].entries[i]

LEMMA ListedTimes ==
    ASSUME TypeOK, NEW o \in Operators, fetch[o] # "idle"
    PROVE  /\ rep[o].started \in Nat
           /\ \A i \in DOMAIN rep[o].entries : rep[o].entries[i] \in Int
<1>1. PICK S \in SUBSET (1..MaxCreates) : rep[o] \in Report(S)
  BY DEF TypeOK, IsReport
<1>2. rep[o].started \in Nat /\ rep[o].entries \in [S -> Int]
  BY <1>1 DEF Report
<1> QED
  BY <1>2

LEMMA PromiseInvKept ==
    ASSUME TypeOK, TypeOK', PromiseInv, [Next]_vars
    PROVE  PromiseInv'
<1> USE ReportAssumption
<1>0. /\ \A o \in Operators : fetch[o] # "idle" =>
            /\ rep[o].started \in Nat
            /\ \A i \in DOMAIN rep[o].entries : rep[o].entries[i] \in Int
      /\ created \in Nat /\ started \in Nat /\ clock \in Nat
  BY ListedTimes DEF TypeOK
<1>1. ASSUME UNCHANGED <<opVars, started>>, created' \in Nat,
             created' >= created, clock' \in Nat, clock' >= clock,
             \A o \in Operators, i \in 1..created :
                 fetch[o] # "idle" /\ i \in DOMAIN rep[o].entries
                    /\ Whereabouts(o, i) => Whereabouts(o, i)'
      PROVE  PromiseInv'
  BY <1>0, <1>1 DEF PromiseInv, opVars
<1>2. CASE UNCHANGED vars \/ CloseStats \/ BeginDrain \/ Exit \/ Crash \/ Notice
  BY <1>0, <1>1, <1>2 DEF vars, CloseStats, BeginDrain, Exit, Crash, Notice,
     Stop, storeVars, opVars, Whereabouts, Live
<1>3. CASE Tick
  BY <1>0, <1>1, <1>3 DEF Tick, storeVars, opVars, Whereabouts, Live
<1>4. CASE Start
  <2>1. /\ started' = clock /\ clock > started
        /\ UNCHANGED opVars
    BY <1>4 DEF Start, StartTime
  <2> QED
    BY <1>0, <2>1 DEF PromiseInv, opVars
<1>5. CASE Sweep
  <2>1. Live' = Live \ Past /\ \A i \in Live \ Past : entries'[i] = entries[i]
    BY <1>5, SweepTyped DEF Sweep
  <2>2. UNCHANGED <<clock, created, started, opVars, burned>>
    BY <1>5 DEF Sweep
  <2>3. \A i \in Past : clock > entries[i].expires
    BY DEF Past
  <2> QED
    BY <1>0, <1>1, <2>1, <2>2, <2>3 DEF Whereabouts, opVars
<1>6. ASSUME NEW r \in Requests, Accept(r) \/ Other(r) PROVE PromiseInv'
  BY <1>0, <1>1, <1>6 DEF Accept, Other, storeVars, opVars, Whereabouts, Live
<1>7. ASSUME NEW r \in Requests, Create(r) PROVE PromiseInv'
  <2>1. /\ Live' = Live \cup {created'}
        /\ \A i \in Live : entries'[i] = entries[i]
    BY <1>7, CreateTyped
  <2>2. UNCHANGED <<clock, started, opVars, burned>> /\ created' = created + 1
    BY <1>7 DEF Create
  <2> QED
    BY <1>0, <1>1, <2>1, <2>2 DEF Whereabouts, opVars
<1>8. ASSUME NEW r \in Requests, NEW i \in Live, Claim(r, i) PROVE PromiseInv'
  <2>1. /\ \/ Live' = Live \ {i} /\ burned' = burned \cup {i}
           \/ Live' = Live /\ burned' = burned
        /\ \A j \in Live' : entries'[j].expires = entries[j].expires
    BY <1>8, ClaimTyped
  <2>2. UNCHANGED <<clock, started, opVars, created>>
    BY <1>8 DEF Claim
  <2> QED
    BY <1>0, <1>1, <2>1, <2>2 DEF Whereabouts, opVars
<1>9. ASSUME NEW o \in Operators, Fetch(o) PROVE PromiseInv'
  <2>1. /\ rep' = [rep EXCEPT ![o] = Current] /\ DOMAIN rep = Operators
        /\ UNCHANGED <<clock, storeVars, started, until, burned>>
        /\ fetch[o] = "idle" /\ fetch' = [fetch EXCEPT ![o] = "sent"]
    BY <1>9 DEF Fetch, Goto, TypeOK
  <2>2. /\ Current.started = started /\ DOMAIN Current.entries = Live
        /\ \A i \in Live : Current.entries[i] = entries[i].expires
    BY DEF Current
  <2>3. Live \subseteq 1..created /\ Live' = Live
    BY <2>1 DEF TypeOK, Live, storeVars
  <2>4. until[o] = None
    BY <2>1 DEF PromiseInv
  <2>5. /\ rep'[o] = Current /\ fetch'[o] = "sent" /\ until'[o] = None
        /\ \A p \in Operators \ {o} :
              rep'[p] = rep[p] /\ fetch'[p] = fetch[p] /\ until'[p] = until[p]
    BY <2>1, <2>4 DEF TypeOK
  <2>6. /\ started' = started /\ created' = created /\ clock' = clock
        /\ entries' = entries /\ burned' = burned
    BY <2>1 DEF storeVars
  <2>7. \A i \in DOMAIN Current.entries :
            i \in 1..created /\ i \in Live'
            /\ entries'[i].expires = Current.entries[i]
    BY <2>2, <2>3, <2>6
  <2> QED
    BY <1>0, <2>2, <2>3, <2>5, <2>6, <2>7 DEF PromiseInv, Whereabouts
<1>10. ASSUME NEW o \in Operators, Show(o) PROVE PromiseInv'
  <2>1. /\ fetch[o] = "sent" /\ fetch' = [fetch EXCEPT ![o] = "shown"]
        /\ UNCHANGED <<clock, storeVars, started, rep, burned>>
    BY <1>10 DEF Show, Goto, TypeOK
  <2>2. \A p \in Operators \ {o} : until'[p] = until[p] /\ fetch'[p] = fetch[p]
    BY <1>10 DEF Show, Goto, TypeOK
  <2>3. until'[o] # None =>
           /\ until'[o] \in Int
           /\ \A i \in DOMAIN rep[o].entries : until'[o] <= rep[o].entries[i]
    <3> DEFINE list == rep[o].entries
    <3>1. CASE UNCHANGED until
      BY <2>1, <3>1 DEF PromiseInv
    <3>2. ASSUME NEW i \in DOMAIN list, IsNext(list, list[i]),
                 until' = [until EXCEPT ![o] = Promise(list[i])]
          PROVE  until'[o] # None =>
                    /\ until'[o] \in Int
                    /\ \A j \in DOMAIN list : until'[o] <= list[j]
      <4> DEFINE t == list[i]
      <4>1. t \in Int /\ until'[o] = Promise(t)
        BY <1>0, <2>1, <3>2 DEF TypeOK
      <4>2. CASE t < clock
        BY <4>1, <4>2 DEF Promise
      <4>3. CASE ~(t < clock)
        <5>1. t - clock \in Nat
          BY <1>0, <4>1, <4>3
        <5>2. humanDuration(t - clock) \in Nat /\ humanDuration(t - clock) <= t - clock
          BY <5>1, RoundedDown
        <5>3. until'[o] \in Int /\ until'[o] <= t
          BY <1>0, <4>1, <4>3, <5>2 DEF Promise
        <5>4. \A j \in DOMAIN list : t <= list[j] /\ list[j] \in Int
          BY <1>0, <2>1, <3>2 DEF IsNext
        <5> HIDE DEF t, list
        <5> QED
          BY <4>1, <5>3, <5>4
      <4> QED
        BY <4>2, <4>3
    <3> QED
      BY <1>10, <3>1, <3>2 DEF Show
  <2>4. Live' = Live
    BY <2>1 DEF Live, storeVars
  <2> QED
    BY <2>1, <2>2, <2>3, <2>4 DEF PromiseInv, Whereabouts, storeVars, TypeOK
<1>11. ASSUME NEW o \in Operators, Leave(o) PROVE PromiseInv'
  <2>1. /\ rep' = [rep EXCEPT ![o] = None] /\ DOMAIN rep = Operators
        /\ fetch' = [fetch EXCEPT ![o] = "idle"]
        /\ until' = [until EXCEPT ![o] = None]
        /\ UNCHANGED <<clock, storeVars, started, burned>>
    BY <1>11 DEF Leave, Goto, TypeOK
  <2>2. Live' = Live
    BY <2>1 DEF Live, storeVars
  <2> QED
    BY <2>1, <2>2 DEF PromiseInv, Whereabouts, storeVars, TypeOK
<1> QED
  BY <1>2, <1>3, <1>4, <1>5, <1>6, <1>7, <1>8, <1>9, <1>10, <1>11 DEF Next

\* Nothing that gjfy stats listed expires within the time it printed, for any
\* validities, any rounding and however late it printed it.
THEOREM PromisesAreKept == Spec => []PromiseKept
<1>1. Init => PromiseInv
  BY DEF Init, PromiseInv
<1>2. TypeOK /\ TypeOK' /\ PromiseInv /\ [Next]_vars => PromiseInv'
  BY PromiseInvKept
<1>3. TypeOK /\ PromiseInv => PromiseKept
  <2> SUFFICES ASSUME TypeOK, PromiseInv, NEW o \in Operators,
                      fetch[o] = "shown", rep[o].started = started,
                      until[o] # None, clock <= until[o],
                      NEW i \in DOMAIN rep[o].entries
               PROVE  i \in Live \cup burned
    BY DEF PromiseKept
  <2>1. rep[o].entries[i] \in Int /\ clock \in Nat
    BY ListedTimes DEF TypeOK
  <2>2. ~(clock > rep[o].entries[i])
    BY <2>1 DEF PromiseInv
  <2> QED
    BY <2>1, <2>2 DEF PromiseInv, Whereabouts
<1> QED
  BY <1>1, <1>2, <1>3, TypeCorrect, PTL DEF Spec

-----------------------------------------------------------------------------

\* The stop in this module is the one a server process performs, for every
\* number of requests: both implement ProcessStop.
THEOREM StopImplemented == Spec => ImplementsStop
<1>1. Init => Promised!Init
  BY DEF Init, Promised!Init
<1>2. TypeOK /\ [Next]_vars => [Promised!Next]_(Promised!vars)
  <2> SUFFICES ASSUME TypeOK, [Next]_vars
               PROVE  Promised!Next \/ UNCHANGED Promised!vars
    OBVIOUS
  <2>1. CASE \/ UNCHANGED vars \/ Tick \/ Sweep
             \/ \E o \in Operators : Fetch(o) \/ Show(o) \/ Leave(o)
    BY <2>1 DEF vars, Tick, Sweep, Fetch, Show, Leave, Promised!vars
  <2>2. CASE Start
    BY <2>2 DEF Start, Promised!Next, Promised!Restart, Promised!Advance
  <2>3. CASE Notice
    <3>1. noted' # None
      BY <2>3, LiveIsFinite, ReportAssumption DEF Notice
    <3> QED
      BY <2>3, <3>1 DEF Notice, Stop, Promised!Next, Promised!Notice,
                        Promised!Advance
  <2>4. CASE CloseStats \/ BeginDrain \/ Exit \/ Crash
    BY <2>4 DEF CloseStats, BeginDrain, Exit, Crash, Stop, Promised!Next,
                Promised!CloseStats, Promised!CloseListener, Promised!Exit,
                Promised!Crash, Promised!Advance
  <2>5. ASSUME NEW r \in Requests, Accept(r) PROVE Promised!Next
    <3>1. Promised!Accept(r)
      BY <2>5 DEF Accept, Accepting, Promised!Accept
    <3> QED
      BY <3>1 DEF Promised!Next
  <2>6. ASSUME NEW r \in Requests,
               Create(r) \/ Other(r) \/ \E i \in Live : Claim(r, i)
        PROVE  Promised!Next
    <3>1. Promised!Finish(r)
      BY <2>6 DEF Create, Other, Claim, Acts, Promised!Finish
    <3> QED
      BY <3>1 DEF Promised!Next
  <2> QED
    BY <2>1, <2>2, <2>3, <2>4, <2>5, <2>6 DEF Next
<1> QED
  BY <1>1, <1>2, TypeCorrect, PTL DEF Spec, ImplementsStop, Promised!Spec
=============================================================================
