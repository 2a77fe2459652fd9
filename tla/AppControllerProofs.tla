------------------------- MODULE AppControllerProofs -------------------------
(***************************************************************************)
(* What holds of the controller for every counter width, queue limit and   *)
(* cache size, whatever its callers do.                                    *)
(*                                                                         *)
(* The lemmas speak of Apply, Finish and Drained as functions of a record, *)
(* so that the proofs of the daemon, whose handlers compose them, use the  *)
(* same lemmas.                                                            *)
(***************************************************************************)
EXTENDS AppController, TLAPS, SequenceTheorems, FiniteSetTheorems

AppRecords ==
  [machine : Machines, events : Seq(Events),
   results : Seq(Results), wake : BOOLEAN]

(***************************************************************************)
(* The machine.                                                            *)
(***************************************************************************)

\* An accepted command leads from a well-formed machine to a well-formed one.
LEMMA AfterIsWellFormed ==
  ASSUME NEW m \in Machines, WellFormed(m),
         NEW c \in Commands, Accepts(m, c)
  PROVE  /\ After(m, c) \in Machines
         /\ WellFormed(After(m, c))
<1> USE MaxIdAssumption
<1>1. /\ m.phase \in Phases
      /\ m.session \in Sessions \cup {NoSession}
      /\ m.nextId \in Sessions
  BY DEF Machines
<1>2. Successor(m.nextId) \in Sessions
  BY <1>1 DEF Successor, Sessions
<1>3. CASE c.kind = "start"
  BY <1>1, <1>2, <1>3
  DEF After, Target, Machines, Phases, Active, Terminal, WellFormed, Successor,
      Sessions, NoSession
<1>4. CASE c.kind = "reset"
  BY <1>1, <1>4
  DEF After, Target, Machines, Phases, Active, Terminal, WellFormed,
      Sessions, NoSession
<1>5. CASE c.kind \in Targeted
  <2>1. m.phase # "idle"
    BY <1>5 DEF Accepts, From, Targeted, Active, Terminal
  <2>2. Target[c.kind] \in Phases \ {"idle"}
    BY <1>5 DEF Target, Targeted, Phases, Active, Terminal
  <2>3. After(m, c) = [phase |-> Target[c.kind], session |-> m.session,
                       nextId |-> m.nextId]
    BY <1>5 DEF After, Targeted
  <2>. QED
    BY <1>1, <2>1, <2>2, <2>3 DEF Machines, WellFormed
<1>. QED
  BY <1>3, <1>4, <1>5 DEF Commands

(***************************************************************************)
(* The result cache.                                                       *)
(***************************************************************************)
CacheOK(rs) ==
  /\ rs \in Seq(Results)
  /\ Len(rs) <= MaxSessionResults
  /\ \A i, j \in 1..Len(rs) : rs[i].session = rs[j].session => i = j

\* What the search for an earlier result of a session returns.
LEMMA PositionFinds ==
  ASSUME NEW rs \in Seq(Results), NEW s
  PROVE  /\ Position(rs, s) \in 0..Len(rs)
         /\ Position(rs, s) # 0 => rs[Position(rs, s)].session = s
         /\ Position(rs, s) = 0 => \A i \in 1..Len(rs) : rs[i].session # s
<1>1. Len(rs) \in Nat
  BY LenProperties
<1>. QED
  BY <1>1 DEF Position

\* Every result of the one cache is a result of the other.
Within(new, old) == \A i \in 1..Len(new) : \E j \in 1..Len(old) : new[i] = old[j]

\* And so is every result but the newest.
WithinButNewest(new, old) ==
  \A i \in 1..(Len(new) - 1) : \E j \in 1..Len(old) : new[i] = old[j]

\* Removing the earlier result leaves a good cache without that session.
LEMMA WithoutIsOK ==
  ASSUME NEW rs, CacheOK(rs), NEW s
  PROVE  LET out == Without(rs, Position(rs, s))
         IN /\ CacheOK(out)
            /\ Within(out, rs)
            /\ \A i \in 1..Len(out) : out[i].session # s
<1> DEFINE p   == Position(rs, s)
           out == Without(rs, p)
<1>1. rs \in Seq(Results) /\ Len(rs) \in Nat /\ MaxSessionResults \in Nat
  BY LenProperties, LimitsAssumption DEF CacheOK
<1>2. CASE p = 0
  BY <1>1, <1>2, PositionFinds DEF Without, Within
<1>3. CASE p # 0
  <2> DEFINE at(j) == IF j < p THEN rs[j] ELSE rs[j + 1]
             n     == Len(rs) - 1
  <2>1. p \in 1..Len(rs) /\ rs[p].session = s
    BY <1>1, <1>3, PositionFinds
  <2>2. out = [j \in 1..n |-> at(j)]
    BY <1>3 DEF Without
  <2>3. n \in Nat /\ \A j \in 1..n : at(j) \in Results
    BY <1>1, <2>1, ElementOfSeq
  <2> HIDE DEF at, n, p, out
  <2>4. out \in Seq(Results)
    BY <2>2, <2>3, IsASeq
  <2>5. Len(out) = n
    BY <2>2, <2>3
  <2>6. \A i, j \in 1..n : at(i).session = at(j).session => i = j
    BY <1>1, <2>1 DEF CacheOK, at, n
  <2>7. \A i \in 1..n : at(i).session # s
    BY <1>1, <2>1 DEF CacheOK, at, n
  <2>8. \A i \in 1..n : out[i] = at(i)
    BY <2>2
  <2>9. n <= MaxSessionResults
    BY <1>1 DEF CacheOK, n
  <2>10. CacheOK(out) /\ \A i \in 1..Len(out) : out[i].session # s
    BY <2>4, <2>5, <2>6, <2>7, <2>8, <2>9 DEF CacheOK
  <2>11. Within(out, rs)
    BY <1>1, <2>1, <2>5, <2>8 DEF Within, at, n
  <2>. QED
    BY <2>10, <2>11 DEF out, p
<1>. QED
  BY <1>2, <1>3

\* Recording an outcome keeps the cache good, and answers for its session.
LEMMA RecordedIsOK ==
  ASSUME NEW rs, CacheOK(rs), NEW s \in Sessions, NEW o \in Outcomes,
         NEW new, new = Recorded(rs, s, o)
  PROVE  /\ CacheOK(new)
         /\ Len(new) \in Nat \ {0}
         /\ new[Len(new)] = [session |-> s, outcome |-> o]
         /\ WithinButNewest(new, rs)
<1> DEFINE out  == Without(rs, Position(rs, s))
           kept == Evicted(out)
           r    == [session |-> s, outcome |-> o]
<1>1. /\ CacheOK(out) /\ Within(out, rs)
      /\ \A i \in 1..Len(out) : out[i].session # s
  BY WithoutIsOK
<1> HIDE DEF out
<1>2. MaxSessionResults \in Nat \ {0}
  BY LimitsAssumption
<1>3. out \in Seq(Results) /\ Len(out) \in Nat
  BY <1>1, LenProperties DEF CacheOK
<1>4. /\ kept \in Seq(Results)
      /\ Len(kept) < MaxSessionResults
      /\ \A i, j \in 1..Len(kept) : kept[i].session = kept[j].session => i = j
      /\ \A i \in 1..Len(kept) : kept[i].session # s
      /\ Within(kept, out)
  <2>1. CASE Len(out) = MaxSessionResults
    <3>1. out # <<>>
      BY <1>2, <1>3, <2>1
    <3>2. kept = Tail(out)
      BY <2>1 DEF Evicted
    <3>3. /\ Tail(out) \in Seq(Results)
          /\ Len(Tail(out)) = Len(out) - 1
          /\ \A i \in 1..Len(Tail(out)) : Tail(out)[i] = out[i + 1]
      BY <1>3, <3>1, HeadTailProperties
    <3> HIDE DEF kept
    <3>. QED
      BY <1>1, <1>2, <1>3, <2>1, <3>2, <3>3 DEF CacheOK, Within
  <2>2. CASE Len(out) # MaxSessionResults
    BY <1>1, <1>2, <1>3, <2>2 DEF Evicted, CacheOK, Within
  <2>. QED
    BY <2>1, <2>2
<1> HIDE DEF kept
<1>5. r \in Results
  BY DEF Results
<1>6. /\ Append(kept, r) \in Seq(Results)
      /\ Len(Append(kept, r)) = Len(kept) + 1
      /\ \A i \in 1..Len(kept) : Append(kept, r)[i] = kept[i]
      /\ Append(kept, r)[Len(kept) + 1] = r
      /\ Len(kept) \in Nat
  BY <1>4, <1>5, AppendProperties, LenProperties
<1>7. Recorded(rs, s, o) = Append(kept, r)
  BY DEF Recorded, kept, out
<1>8. r.session = s
  OBVIOUS
<1> HIDE DEF r
<1>9. \A i, j \in 1..(Len(kept) + 1) :
        Append(kept, r)[i].session = Append(kept, r)[j].session => i = j
  BY <1>4, <1>6, <1>8
<1>10. \A i \in 1..Len(kept) : \E j \in 1..Len(rs) : kept[i] = rs[j]
  BY <1>1, <1>4 DEF Within
<1>. QED
  BY <1>2, <1>4, <1>6, <1>7, <1>9, <1>10 DEF CacheOK, WithinButNewest, r

(***************************************************************************)
(* The methods of the controller.                                          *)
(***************************************************************************)

\* No identifier that is still to be issued occurs in a result or an event.
OnlyIssued(a) ==
  a.machine.nextId # MaxId =>
    /\ \A i \in 1..Len(a.results) : a.results[i].session < a.machine.nextId
    /\ \A i \in 1..Len(a.events)  : a.events[i].session  < a.machine.nextId

\* The newest state among the waiting events is the current one.
NewestIsCurrent(a) ==
  \A i \in 1..Len(a.events) :
    /\ a.events[i].outcome = "none"
    /\ \A j \in (i + 1)..Len(a.events) : a.events[j].outcome # "none"
    => a.events[i] = StateChanged(a.machine)

GoodApp(a) ==
  /\ a \in AppRecords
  /\ WellFormed(a.machine)
  /\ Len(a.events) <= MaxPendingEvents
  /\ CacheOK(a.results)
  /\ OnlyIssued(a)
  /\ NewestIsCurrent(a)

\* An event that is appended to a good queue.
LEMMA OneMoreEvent ==
  ASSUME NEW es \in Seq(Events), NEW e \in Events
  PROVE  /\ Append(es, e) \in Seq(Events)
         /\ Len(es) \in Nat
         /\ Len(Append(es, e)) = Len(es) + 1
         /\ \A i \in 1..Len(es) : Append(es, e)[i] = es[i]
         /\ Append(es, e)[Len(es) + 1] = e
BY AppendProperties, LenProperties

\* The events that the methods queue are events.
LEMMA EventsTyped ==
  /\ \A m \in Machines : StateChanged(m) \in Events
  /\ \A s \in Sessions, o \in Outcomes : SessionFinished(s, o) \in Events
BY DEF StateChanged, SessionFinished, Events, Machines

\* The controller starts well.
LEMMA InitialIsGood ==
  GoodApp(InitialApp)
<1>1. InitialMachine \in Machines /\ WellFormed(InitialMachine)
  BY MaxIdAssumption
  DEF InitialMachine, Machines, Phases, Sessions, NoSession, WellFormed
<1>2. StateChanged(InitialMachine) \in Events
  BY <1>1, EventsTyped
<1>3. InitialApp \in AppRecords
  BY <1>1, <1>2 DEF InitialApp, AppRecords
<1>4. CacheOK(<<>>)
  BY LimitsAssumption DEF CacheOK
<1>5. OnlyIssued(InitialApp)
  BY DEF OnlyIssued, InitialApp, InitialMachine, StateChanged, NoSession
<1>6. NewestIsCurrent(InitialApp)
  BY DEF NewestIsCurrent, InitialApp
<1>. QED
  BY <1>1, <1>3, <1>4, <1>5, <1>6, LimitsAssumption DEF GoodApp, InitialApp

\* Reporting an outcome of an issued session, in a queue that has room for it.
LEMMA ReportedIsGood ==
  ASSUME NEW a, GoodApp(a), Len(a.events) < MaxPendingEvents,
         NEW s \in Sessions, s < a.machine.nextId \/ a.machine.nextId = MaxId,
         NEW o \in Outcomes
  PROVE  GoodApp([machine |-> a.machine,
                  events  |-> Append(a.events, SessionFinished(s, o)),
                  results |-> Recorded(a.results, s, o),
                  wake    |-> TRUE])
<1> DEFINE e == SessionFinished(s, o)
           b == [machine |-> a.machine, events |-> Append(a.events, e),
                 results |-> Recorded(a.results, s, o), wake |-> TRUE]
<1>1. /\ a \in AppRecords /\ a.machine \in Machines /\ a.events \in Seq(Events)
      /\ CacheOK(a.results) /\ a.machine.nextId \in Nat /\ s \in Nat
      /\ a.results \in Seq(Results) /\ Len(a.results) \in Nat
  BY LenProperties, MaxIdAssumption
  DEF GoodApp, AppRecords, Machines, Sessions, CacheOK
<1>2. e \in Events /\ e.session = s /\ e.outcome # "none"
  BY DEF SessionFinished, Events, Outcomes
<1>3. /\ b.machine = a.machine /\ b.wake = TRUE
      /\ b.events = Append(a.events, e)
      /\ b.results = Recorded(a.results, s, o)
      /\ b = [machine |-> a.machine, events |-> Append(a.events, e),
              results |-> Recorded(a.results, s, o), wake |-> TRUE]
  OBVIOUS
<1> HIDE DEF e, b
<1>4. /\ Append(a.events, e) \in Seq(Events)
      /\ Len(a.events) \in Nat
      /\ Len(Append(a.events, e)) = Len(a.events) + 1
      /\ \A i \in 1..Len(a.events) : Append(a.events, e)[i] = a.events[i]
      /\ Append(a.events, e)[Len(a.events) + 1] = e
  BY <1>1, <1>2, OneMoreEvent
<1> DEFINE new == Recorded(a.results, s, o)
<1>5. b.results = new
  BY <1>3
<1> HIDE DEF new
<1>6. /\ CacheOK(new) /\ Len(new) \in Nat \ {0} /\ new \in Seq(Results)
      /\ new[Len(new)].session = s
      /\ WithinButNewest(new, a.results)
  <2>1. new = Recorded(a.results, s, o)
    BY DEF new
  <2>2. /\ CacheOK(new) /\ Len(new) \in Nat \ {0}
        /\ new[Len(new)] = [session |-> s, outcome |-> o]
        /\ WithinButNewest(new, a.results)
    BY <1>1, <2>1, RecordedIsOK
  <2>. QED
    BY <2>2 DEF CacheOK
<1>7. b \in AppRecords
  BY <1>1, <1>3, <1>4, <1>5, <1>6 DEF AppRecords
<1>8. Len(b.events) <= MaxPendingEvents
  BY <1>3, <1>4, LimitsAssumption
<1>9. OnlyIssued(b)
  <2> SUFFICES ASSUME a.machine.nextId # MaxId
               PROVE  /\ \A i \in 1..Len(new) : new[i].session < a.machine.nextId
                      /\ \A i \in 1..Len(b.events) :
                           b.events[i].session < a.machine.nextId
    BY <1>3, <1>5 DEF OnlyIssued
  <2>1. /\ \A i \in 1..Len(a.results) : a.results[i].session < a.machine.nextId
        /\ \A i \in 1..Len(a.events)  : a.events[i].session  < a.machine.nextId
    BY DEF GoodApp, OnlyIssued
  <2>2. \A i \in 1..(Len(new) - 1) : new[i].session < a.machine.nextId
    BY <1>6, <2>1 DEF WithinButNewest
  <2>. QED
    BY <1>2, <1>3, <1>4, <1>6, <2>1, <2>2
<1>10. NewestIsCurrent(b)
  <2> SUFFICES ASSUME NEW i \in 1..Len(b.events), b.events[i].outcome = "none",
                      \A j \in (i + 1)..Len(b.events) : b.events[j].outcome # "none"
               PROVE  b.events[i] = StateChanged(b.machine)
    BY DEF NewestIsCurrent
  <2>1. i \in 1..Len(a.events)
    BY <1>2, <1>3, <1>4
  <2>2. \A j \in (i + 1)..Len(a.events) : a.events[j].outcome # "none"
    BY <1>3, <1>4
  <2>3. a.events[i].outcome = "none"
    BY <1>3, <1>4, <2>1
  <2>. QED
    BY <1>3, <1>4, <2>1, <2>2, <2>3 DEF GoodApp, NewestIsCurrent
<1>. QED
  BY <1>3, <1>5, <1>6, <1>7, <1>8, <1>9, <1>10 DEF GoodApp, e, b

\* Publishing the state a command leads to, in a queue that has room for it.
LEMMA MovedIsGood ==
  ASSUME NEW a, GoodApp(a), Len(a.events) < MaxPendingEvents,
         NEW c \in Commands, Accepts(a.machine, c)
  PROVE  GoodApp([machine |-> After(a.machine, c),
                  events  |-> Append(a.events, StateChanged(After(a.machine, c))),
                  results |-> a.results,
                  wake    |-> TRUE])
<1> DEFINE m == After(a.machine, c)
           e == StateChanged(m)
           b == [machine |-> m, events |-> Append(a.events, e),
                 results |-> a.results, wake |-> TRUE]
<1>1. /\ a \in AppRecords /\ a.machine \in Machines /\ a.events \in Seq(Events)
      /\ CacheOK(a.results) /\ WellFormed(a.machine)
      /\ a.results \in Seq(Results) /\ Len(a.results) \in Nat
  BY LenProperties DEF GoodApp, AppRecords, CacheOK
<1>2. m \in Machines /\ WellFormed(m)
  BY <1>1, AfterIsWellFormed
<1>3. m.nextId = a.machine.nextId \/ m.nextId = Successor(a.machine.nextId)
  BY DEF After
<1>4. /\ a.machine.nextId \in Nat /\ m.nextId \in Nat
      /\ a.machine.nextId <= m.nextId
      /\ m.nextId # MaxId => a.machine.nextId # MaxId
  BY <1>1, <1>2, <1>3, MaxIdAssumption DEF Machines, Sessions, Successor
<1> HIDE DEF m
<1>5. e \in Events /\ e.outcome = "none" /\ e.session = m.session
  BY <1>2, EventsTyped DEF StateChanged
<1>6. b = [machine |-> m, events |-> Append(a.events, e),
           results |-> a.results, wake |-> TRUE]
  OBVIOUS
<1>7. e = StateChanged(m)
  OBVIOUS
<1> HIDE DEF e, b
<1>8. /\ Append(a.events, e) \in Seq(Events)
      /\ Len(a.events) \in Nat
      /\ Len(Append(a.events, e)) = Len(a.events) + 1
      /\ \A i \in 1..Len(a.events) : Append(a.events, e)[i] = a.events[i]
      /\ Append(a.events, e)[Len(a.events) + 1] = e
  BY <1>1, <1>5, OneMoreEvent
<1>9. b \in AppRecords
  BY <1>1, <1>2, <1>6, <1>8 DEF AppRecords
<1>10. Len(b.events) <= MaxPendingEvents
  BY <1>6, <1>8, LimitsAssumption
<1>11. OnlyIssued(b)
  <2> SUFFICES ASSUME m.nextId # MaxId
               PROVE  /\ \A i \in 1..Len(a.results) : a.results[i].session < m.nextId
                      /\ \A i \in 1..Len(b.events)  : b.events[i].session  < m.nextId
    BY <1>6 DEF OnlyIssued
  <2>1. /\ \A i \in 1..Len(a.results) : a.results[i].session < a.machine.nextId
        /\ \A i \in 1..Len(a.events)  : a.events[i].session  < a.machine.nextId
    BY <1>4 DEF GoodApp, OnlyIssued
  <2>2. /\ \A i \in 1..Len(a.results) : a.results[i].session \in Nat
        /\ \A i \in 1..Len(a.events)  : a.events[i].session  \in Nat
    <3>1. /\ \A i \in 1..Len(a.results) : a.results[i] \in Results
          /\ \A i \in 1..Len(a.events)  : a.events[i] \in Events
      BY <1>1, ElementOfSeq
    <3>2. (\A r \in Results : r.session \in Nat) /\ (\A f \in Events : f.session \in Nat)
      BY MaxIdAssumption DEF Results, Events, Sessions, NoSession
    <3>. QED
      BY <3>1, <3>2
  <2>3. m.session < m.nextId
    BY <1>2 DEF WellFormed
  <2>. QED
    BY <1>4, <1>5, <1>6, <1>8, <2>1, <2>2, <2>3
<1>12. NewestIsCurrent(b)
  BY <1>5, <1>6, <1>7, <1>8 DEF NewestIsCurrent
<1>. QED
  BY <1>1, <1>2, <1>6, <1>9, <1>10, <1>11, <1>12 DEF GoodApp, b, e, m

\* Whatever the command, accepted or refused.
LEMMA ApplyIsGood ==
  ASSUME NEW a, GoodApp(a), NEW c \in Commands
  PROVE  GoodApp(Apply(a, c))
<1>1. CASE ~ Applies(a, c)
  BY <1>1 DEF Apply
<1>2. CASE Applies(a, c)
  <2> DEFINE m     == After(a.machine, c)
             moved == [machine |-> m, events |-> Append(a.events, StateChanged(m)),
                       results |-> a.results, wake |-> TRUE]
  <2>1. Accepts(a.machine, c)
    BY <1>2 DEF Applies
  <2>2. /\ a \in AppRecords /\ a.machine \in Machines /\ WellFormed(a.machine)
        /\ a.events \in Seq(Events) /\ Len(a.events) \in Nat
    BY LenProperties DEF GoodApp, AppRecords
  <2>3. Len(a.events) <= MaxPendingEvents - 2
    BY <1>2, <2>2, LimitsAssumption DEF Applies, Backpressure
  <2>4. Len(a.events) < MaxPendingEvents
    BY <2>2, <2>3, LimitsAssumption
  <2>5. GoodApp(moved)
    BY <2>1, <2>4, MovedIsGood
  <2>6. CASE c.kind \notin DOMAIN TerminalOutcome
    <3>1. Apply(a, c) = moved
      BY <1>2, <2>6 DEF Apply
    <3>. QED
      BY <2>5, <3>1
  <2>7. CASE c.kind \in DOMAIN TerminalOutcome
    <3> DEFINE o == TerminalOutcome[c.kind]
               finished == [machine |-> moved.machine,
                            events  |-> Append(moved.events, SessionFinished(c.session, o)),
                            results |-> Recorded(moved.results, c.session, o),
                            wake    |-> TRUE]
    <3>1. c.kind \in {"cancel", "no_speech", "fail"} /\ o \in Outcomes
      BY <2>7 DEF TerminalOutcome, Outcomes
    <3>2. /\ c.session = a.machine.session
          /\ a.machine.phase # "idle"
          /\ m.session = a.machine.session /\ m.nextId = a.machine.nextId
      BY <2>1, <3>1 DEF Accepts, From, Targeted, Active, Terminal, After
    <3>3. /\ c.session \in Sessions
          /\ c.session < a.machine.nextId \/ a.machine.nextId = MaxId
      BY <2>2, <3>2 DEF WellFormed, Machines
    <3>4. StateChanged(m) \in Events
      BY <2>5, EventsTyped DEF GoodApp, AppRecords
    <3>5. Len(moved.events) < MaxPendingEvents
      <4>1. Len(moved.events) = Len(a.events) + 1
        BY <2>2, <3>4, OneMoreEvent
      <4> HIDE DEF moved
      <4>. QED
        BY <2>2, <2>3, <4>1, LimitsAssumption
    <3>6. moved.machine.nextId = a.machine.nextId
      BY <3>2
    <3>7. Apply(a, c) = finished
      BY <1>2, <2>7 DEF Apply
    <3> HIDE DEF moved, o
    <3>8. GoodApp(finished)
      BY <2>5, <3>1, <3>3, <3>5, <3>6, ReportedIsGood
    <3>. QED
      BY <3>7, <3>8
  <2>. QED
    BY <2>6, <2>7
<1>. QED
  BY <1>1, <1>2

\* The outcome of an issued session, whether or not the queue has room.
LEMMA FinishIsGood ==
  ASSUME NEW a, GoodApp(a), NEW s \in Sessions, NEW o \in Outcomes,
         s < a.machine.nextId \/ a.machine.nextId = MaxId
  PROVE  GoodApp(Finish(a, s, o))
<1>1. CASE ~ CanFinish(a)
  BY <1>1 DEF Finish
<1>2. CASE CanFinish(a)
  <2>1. Len(a.events) \in Nat /\ Len(a.events) < MaxPendingEvents
    <3>1. a.events \in Seq(Events)
      BY DEF GoodApp, AppRecords
    <3>. QED
      BY <1>2, <3>1, LenProperties, LimitsAssumption DEF GoodApp, CanFinish
  <2>. QED
    BY <1>2, <2>1, ReportedIsGood DEF Finish
<1>. QED
  BY <1>1, <1>2

\* Draining the queue, and a wake-up.
LEMMA DrainedIsGood ==
  ASSUME NEW a, GoodApp(a)
  PROVE  GoodApp(Drained(a))
<1>1. a \in AppRecords
  BY DEF GoodApp
<1>2. Drained(a) = [machine |-> a.machine, events |-> <<>>,
                    results |-> a.results, wake |-> a.wake]
  BY <1>1 DEF Drained, AppRecords
<1>3. Drained(a) \in AppRecords
  BY <1>1, <1>2 DEF AppRecords
<1>. QED
  BY <1>2, <1>3, LimitsAssumption DEF GoodApp, OnlyIssued, NewestIsCurrent

LEMMA NotifiedIsGood ==
  ASSUME NEW a, GoodApp(a), NEW w \in BOOLEAN
  PROVE  GoodApp([a EXCEPT !.wake = w])
<1>1. a \in AppRecords
  BY DEF GoodApp
<1> DEFINE b == [a EXCEPT !.wake = w]
<1>2. b = [machine |-> a.machine, events |-> a.events,
           results |-> a.results, wake |-> w]
  BY <1>1 DEF AppRecords
<1>3. b \in AppRecords
  BY <1>1, <1>2 DEF AppRecords
<1>. QED
  BY <1>2, <1>3 DEF GoodApp, OnlyIssued, NewestIsCurrent

\* No command takes a session back.
LEMMA ApplyGoesForward ==
  ASSUME NEW a, GoodApp(a), NEW c \in Commands
  PROVE  GoesForward(a.machine, Apply(a, c).machine)
<1> DEFINE m == a.machine
<1>1. m \in Machines /\ WellFormed(m) /\ m.nextId \in Nat /\ m.session \in Nat
  BY MaxIdAssumption DEF GoodApp, AppRecords, Machines, Sessions, NoSession
<1>2. CASE ~ Applies(a, c)
  <2>1. Apply(a, c).machine = m
    BY <1>2 DEF Apply
  <2>2. Rank[m.phase] \in Nat
    BY <1>1 DEF Rank, Machines
  <2>. QED
    BY <2>1, <2>2 DEF GoesForward
<1>3. CASE Applies(a, c)
  <2>1. Apply(a, c).machine = After(m, c) /\ Accepts(m, c)
    BY <1>3 DEF Apply, Applies
  <2>2. m.phase \in From[c.kind] /\ After(m, c).phase = Target[c.kind]
    BY <2>1 DEF Accepts, After
  <2> HIDE DEF m
  <2>3. CASE c.kind = "start"
    <3>1. After(m, c).session = m.nextId
      BY <2>3 DEF After
    <3>. QED
      BY <1>1, <2>1, <3>1 DEF GoesForward, m
  <2>4. CASE c.kind = "reset"
    <3>1. After(m, c).session = NoSession
      BY <2>4 DEF After
    <3>2. m.session = NoSession => m.phase = "idle"
      BY <1>1 DEF WellFormed
    <3>3. Rank["idle"] = 0
      BY DEF Rank, Phases
    <3>. QED
      BY <2>1, <2>2, <2>4, <3>1, <3>2, <3>3 DEF GoesForward, Target, m
  <2>5. CASE c.kind \in Targeted
    <3>1. Rank[Target[c.kind]] >= Rank[m.phase]
      <4>1. \A p \in Phases : Rank[p] = CASE p = "idle"       -> 0
                                          [] p = "preparing"  -> 1
                                          [] p = "listening"  -> 2
                                          [] p = "finalizing" -> 3
                                          [] p = "inserting"  -> 4
                                          [] OTHER            -> 5
        BY DEF Rank
      <4>2. /\ Rank["idle"] = 0 /\ Rank["preparing"] = 1 /\ Rank["listening"] = 2
            /\ Rank["finalizing"] = 3 /\ Rank["inserting"] = 4
            /\ \A p \in Terminal : Rank[p] = 5
        BY <4>1 DEF Phases, Active, Terminal
      <4>. QED
        BY <2>2, <2>5, <4>2 DEF From, Target, Targeted, Active, Terminal
    <3>. QED
      BY <2>1, <2>2, <3>1 DEF GoesForward, m
  <2>. QED
    BY <2>3, <2>4, <2>5 DEF Commands
<1>. QED
  BY <1>2, <1>3

(***************************************************************************)
(* What pollers find.                                                      *)
(***************************************************************************)

\* The sessions whose ends are told behind the i-th event.
ToldLater(es, i) ==
  {es[j].session : j \in {k \in (i + 1)..Len(es) : es[k].outcome # "none"}}

\* The cache has the result, and behind it only results of the sessions in L.
Followed(rs, r, L) ==
  \E k \in 1..Len(rs) :
    rs[k] = r /\ \A j \in (k + 1)..Len(rs) : rs[j].session \in L

\* As many sessions as the cache has room for.
FillsCache(L) == \E S \in SUBSET L : Cardinality(S) = MaxSessionResults

ResultOf(e) == [session |-> e.session, outcome |-> e.outcome]

\* The cache agrees with the last end of a session that waits in the queue.  What it
\* keeps behind that result was recorded later: with this, the result can only be evicted
\* by as many ends of other sessions as the cache has room for.
Agrees(es, rs) ==
  \A i \in 1..Len(es) :
    es[i].outcome # "none" /\ es[i].session \notin ToldLater(es, i)
      => Followed(rs, ResultOf(es[i]), ToldLater(es, i)) \/ FillsCache(ToldLater(es, i))

\* Another outcome of s takes the place of an older one of s, and of no other.
LEMMA WithoutKeepsOthers ==
  ASSUME NEW rs \in Seq(Results), NEW s, NEW r, r.session # s, NEW L, Followed(rs, r, L)
  PROVE  Followed(Without(rs, Position(rs, s)), r, L)
<1> DEFINE p   == Position(rs, s)
           out == Without(rs, p)
<1>1. PICK k \in 1..Len(rs) :
        rs[k] = r /\ \A j \in (k + 1)..Len(rs) : rs[j].session \in L
  BY DEF Followed
<1>2. Len(rs) \in Nat /\ p \in 0..Len(rs) /\ (p # 0 => rs[p].session = s)
  BY LenProperties, PositionFinds
<1> HIDE DEF p
<1>3. CASE p = 0
  BY <1>3 DEF Without, p
<1>4. CASE p # 0
  <2>1. out = [j \in 1..(Len(rs) - 1) |-> IF j < p THEN rs[j] ELSE rs[j + 1]]
    BY <1>4 DEF Without
  <2>2. /\ Len(out) = Len(rs) - 1
        /\ \A j \in 1..(Len(rs) - 1) : out[j] = IF j < p THEN rs[j] ELSE rs[j + 1]
    BY <1>2, <1>4, <2>1
  <2> HIDE DEF out
  <2>3. k # p
    BY <1>1, <1>2, <1>4
  <2>4. CASE k < p
    <3>1. k \in 1..Len(out) /\ out[k] = r
      BY <1>1, <1>2, <1>4, <2>2, <2>4
    <3>2. \A j \in (k + 1)..Len(out) : out[j].session \in L
      BY <1>1, <1>2, <1>4, <2>2, <2>4
    <3>. QED
      BY <3>1, <3>2 DEF Followed, out, p
  <2>5. CASE k > p
    <3>1. (k - 1) \in 1..Len(out) /\ out[k - 1] = r
      BY <1>1, <1>2, <1>4, <2>2, <2>5
    <3>2. \A j \in ((k - 1) + 1)..Len(out) : out[j].session \in L
      BY <1>1, <1>2, <1>4, <2>2, <2>5
    <3>. QED
      BY <3>1, <3>2 DEF Followed, out, p
  <2>. QED
    BY <1>2, <2>3, <2>4, <2>5
<1>. QED
  BY <1>3, <1>4 DEF p

\* Results of different sessions are as many as their sessions.
LEMMA SessionsOfResults ==
  ASSUME NEW rs, CacheOK(rs)
  PROVE  Cardinality({rs[j].session : j \in 1..Len(rs)}) = Len(rs)
<1> DEFINE S == {rs[j].session : j \in 1..Len(rs)}
           f == [j \in 1..Len(rs) |-> rs[j].session]
<1>1. Len(rs) \in Nat
  BY LenProperties DEF CacheOK
<1>2. f \in [1..Len(rs) -> S]
  OBVIOUS
<1>3. \A i, j \in 1..Len(rs) : f[i] = f[j] => i = j
  BY DEF CacheOK
<1>4. \A x \in S : \E j \in 1..Len(rs) : f[j] = x
  OBVIOUS
<1> HIDE DEF S, f
<1>5. f \in Bijection(1..Len(rs), S)
  BY <1>2, <1>3, <1>4 DEF Bijection, Injection, Surjection, IsInjective
<1>6. ExistsBijection(1..Len(rs), S)
  BY <1>5 DEF ExistsBijection
<1>7. Cardinality(S) = Len(rs)
  BY <1>1, <1>6, FS_CountingElements
<1>. QED
  BY <1>7 DEF S

\* An outcome that is recorded evicts another session's result only if the results behind
\* that one and the new one fill the cache.
LEMMA RecordedKeepsOthers ==
  ASSUME NEW rs, CacheOK(rs), NEW s \in Sessions, NEW o \in Outcomes,
         NEW r, r.session # s, NEW L, Followed(rs, r, L)
  PROVE  Followed(Recorded(rs, s, o), r, L \cup {s}) \/ FillsCache(L \cup {s})
<1> DEFINE out  == Without(rs, Position(rs, s))
           kept == Evicted(out)
           x    == [session |-> s, outcome |-> o]
           new  == Append(kept, x)
<1>1. rs \in Seq(Results)
  BY DEF CacheOK
<1>2. CacheOK(out) /\ Followed(out, r, L)
  BY <1>1, WithoutIsOK, WithoutKeepsOthers
<1>3. Recorded(rs, s, o) = new
  BY DEF Recorded
<1>4. CacheOK(new)
  BY <1>3, RecordedIsOK
<1>5. x \in Results /\ x.session = s
  BY DEF Results
<1> HIDE DEF out, x
<1>6. out \in Seq(Results) /\ Len(out) \in Nat /\ MaxSessionResults \in Nat \ {0}
  BY <1>2, LenProperties, LimitsAssumption DEF CacheOK
<1>7. PICK k \in 1..Len(out) :
        out[k] = r /\ \A j \in (k + 1)..Len(out) : out[j].session \in L
  BY <1>2 DEF Followed
<1>8. CASE Len(out) # MaxSessionResults
  <2>1. new = Append(out, x)
    BY <1>8 DEF Evicted
  <2>2. /\ Len(new) = Len(out) + 1
        /\ \A i \in 1..Len(out) : new[i] = out[i]
        /\ new[Len(out) + 1] = x
    BY <1>5, <1>6, <2>1, AppendProperties
  <2> HIDE DEF new
  <2>3. k \in 1..Len(new) /\ new[k] = r
    BY <1>6, <1>7, <2>2
  <2>4. ASSUME NEW j \in (k + 1)..Len(new)
        PROVE  new[j].session \in L \cup {s}
    BY <1>5, <1>6, <1>7, <2>2, <2>4
  <2>. QED
    BY <1>3, <2>3, <2>4 DEF Followed
<1>9. CASE Len(out) = MaxSessionResults
  <2>1. kept = Tail(out)
    BY <1>9 DEF Evicted
  <2>2. /\ kept \in Seq(Results) /\ Len(kept) = Len(out) - 1
        /\ \A i \in 1..Len(kept) : kept[i] = out[i + 1]
    BY <1>6, <1>9, <2>1, HeadTailProperties
  <2> HIDE DEF kept
  <2>3. /\ Len(new) = Len(out)
        /\ \A i \in 1..(Len(out) - 1) : new[i] = out[i + 1]
        /\ new[Len(out)] = x
    BY <1>5, <1>6, <1>9, <2>2, AppendProperties
  <2> HIDE DEF new
  <2>4. CASE k = 1
    <3> DEFINE S == {new[j].session : j \in 1..Len(new)}
    <3>1. Cardinality(S) = MaxSessionResults
      BY <1>4, <1>9, <2>3, SessionsOfResults
    <3>2. ASSUME NEW j \in 1..Len(new)
          PROVE  new[j].session \in L \cup {s}
      BY <1>5, <1>6, <1>7, <2>3, <2>4, <3>2
    <3>3. S \subseteq L \cup {s}
      BY <3>2
    <3> HIDE DEF S
    <3>. QED
      BY <3>1, <3>3 DEF FillsCache
  <2>5. CASE k # 1
    <3>1. (k - 1) \in 1..Len(new) /\ new[k - 1] = r
      BY <1>6, <1>7, <1>9, <2>3, <2>5
    <3>2. ASSUME NEW j \in ((k - 1) + 1)..Len(new)
          PROVE  new[j].session \in L \cup {s}
      BY <1>5, <1>6, <1>7, <2>3, <2>5, <3>2
    <3>. QED
      BY <1>3, <3>1, <3>2 DEF Followed
  <2>. QED
    BY <2>4, <2>5
<1>. QED
  BY <1>8, <1>9

\* A state that is published changes nothing for pollers.
LEMMA MovedAgrees ==
  ASSUME NEW es \in Seq(Events), NEW rs, Agrees(es, rs),
         NEW e \in Events, e.outcome = "none"
  PROVE  Agrees(Append(es, e), rs)
<1> DEFINE new == Append(es, e)
<1>1. /\ Len(es) \in Nat /\ Len(new) = Len(es) + 1
      /\ \A i \in 1..Len(es) : new[i] = es[i]
      /\ new[Len(es) + 1] = e
  BY OneMoreEvent
<1> HIDE DEF new
<1>2. ASSUME NEW i \in 1..Len(es)
      PROVE  ToldLater(new, i) = ToldLater(es, i)
  <2>1. {k \in (i + 1)..Len(new) : new[k].outcome # "none"}
          = {k \in (i + 1)..Len(es) : es[k].outcome # "none"}
    BY <1>1
  <2>2. \A k \in (i + 1)..Len(es) : new[k] = es[k]
    BY <1>1
  <2>. QED
    BY <2>1, <2>2 DEF ToldLater
<1>3. ASSUME NEW i \in 1..Len(new), new[i].outcome # "none"
      PROVE  i \in 1..Len(es) /\ new[i] = es[i]
  BY <1>1, <1>3
<1>. QED
  BY <1>2, <1>3 DEF Agrees, new

\* The end of a session is told and recorded.
LEMMA ReportedAgrees ==
  ASSUME NEW es \in Seq(Events), NEW rs, CacheOK(rs), Agrees(es, rs),
         NEW s \in Sessions, NEW o \in Outcomes
  PROVE  Agrees(Append(es, SessionFinished(s, o)), Recorded(rs, s, o))
<1> DEFINE e   == SessionFinished(s, o)
           new == Append(es, e)
           res == Recorded(rs, s, o)
<1>1. e \in Events /\ e.session = s /\ e.outcome = o /\ o # "none"
  BY EventsTyped DEF SessionFinished, Outcomes
<1>2. ResultOf(e) = [session |-> s, outcome |-> o]
  BY DEF SessionFinished, ResultOf
<1>3. /\ Len(res) \in Nat \ {0} /\ res[Len(res)] = [session |-> s, outcome |-> o]
  BY RecordedIsOK
<1> HIDE DEF e, res
<1>4. /\ Len(es) \in Nat /\ Len(new) = Len(es) + 1
      /\ \A i \in 1..Len(es) : new[i] = es[i]
      /\ new[Len(es) + 1] = e
  BY <1>1, OneMoreEvent
<1> HIDE DEF new
<1>5. ASSUME NEW i \in 1..Len(es)
      PROVE  ToldLater(new, i) = ToldLater(es, i) \cup {s}
  <2>1. {k \in (i + 1)..Len(new) : new[k].outcome # "none"}
          = {k \in (i + 1)..Len(es) : es[k].outcome # "none"} \cup {Len(es) + 1}
    BY <1>1, <1>4
  <2>2. \A k \in (i + 1)..Len(es) : new[k] = es[k]
    BY <1>4
  <2> DEFINE K == {k \in (i + 1)..Len(es) : es[k].outcome # "none"}
  <2>3. \A k \in K : new[k].session = es[k].session
    BY <2>2
  <2>4. ToldLater(new, i) = {new[k].session : k \in K \cup {Len(es) + 1}}
    BY <2>1 DEF ToldLater
  <2>5. ToldLater(es, i) = {es[k].session : k \in K}
    BY DEF ToldLater
  <2>6. new[Len(es) + 1].session = s
    BY <1>1, <1>4
  <2> HIDE DEF K
  <2>. QED
    BY <2>3, <2>4, <2>5, <2>6
<1>6. ASSUME NEW i \in 1..Len(new),
             new[i].outcome # "none", new[i].session \notin ToldLater(new, i)
      PROVE  \/ Followed(res, ResultOf(new[i]), ToldLater(new, i))
             \/ FillsCache(ToldLater(new, i))
  <2>1. CASE i = Len(es) + 1
    <3>1. res[Len(res)] = ResultOf(new[i])
      BY <1>2, <1>3, <1>4, <2>1
    <3>2. \A j \in (Len(res) + 1)..Len(res) : res[j].session \in ToldLater(new, i)
      BY <1>3
    <3>. QED
      BY <1>3, <3>1, <3>2 DEF Followed
  <2>2. CASE i \in 1..Len(es)
    <3>1. /\ new[i] = es[i] /\ ToldLater(new, i) = ToldLater(es, i) \cup {s}
          /\ es[i].session # s /\ es[i].session \notin ToldLater(es, i)
      BY <1>4, <1>5, <1>6, <2>2
    <3>2. \/ Followed(rs, ResultOf(es[i]), ToldLater(es, i))
          \/ FillsCache(ToldLater(es, i))
      BY <1>6, <2>2, <3>1 DEF Agrees
    <3>3. FillsCache(ToldLater(es, i)) => FillsCache(ToldLater(new, i))
      BY <3>1 DEF FillsCache
    <3>4. ResultOf(es[i]).session # s
      BY <3>1 DEF ResultOf
    <3>. QED
      BY <3>1, <3>2, <3>3, <3>4, RecordedKeepsOthers DEF res
  <2>. QED
    BY <1>4, <2>1, <2>2
<1>. QED
  BY <1>6 DEF Agrees, new, res, e

\* Both, for a command that is applied.
LEMMA ApplyAgrees ==
  ASSUME NEW a, GoodApp(a), Agrees(a.events, a.results), NEW c \in Commands
  PROVE  Agrees(Apply(a, c).events, Apply(a, c).results)
<1>1. CASE ~ Applies(a, c)
  BY <1>1 DEF Apply
<1>2. CASE Applies(a, c)
  <2> DEFINE m     == After(a.machine, c)
             moved == Append(a.events, StateChanged(m))
             o     == TerminalOutcome[c.kind]
  <2>1. Accepts(a.machine, c)
    BY <1>2 DEF Applies
  <2>2. /\ a.machine \in Machines /\ WellFormed(a.machine)
        /\ a.events \in Seq(Events) /\ CacheOK(a.results)
    BY DEF GoodApp, AppRecords
  <2>3. StateChanged(m) \in Events /\ StateChanged(m).outcome = "none"
    <3>1. m \in Machines
      BY <2>1, <2>2, AfterIsWellFormed
    <3>. QED
      BY <3>1, EventsTyped DEF StateChanged
  <2>4. moved \in Seq(Events) /\ Agrees(moved, a.results)
    BY <2>2, <2>3, MovedAgrees, OneMoreEvent
  <2>5. CASE c.kind \notin DOMAIN TerminalOutcome
    BY <1>2, <2>4, <2>5 DEF Apply
  <2>6. CASE c.kind \in DOMAIN TerminalOutcome
    <3>1. c.kind \in {"cancel", "no_speech", "fail"} /\ o \in Outcomes
      BY <2>6 DEF TerminalOutcome, Outcomes
    <3>2. c.session = a.machine.session /\ a.machine.phase # "idle"
      BY <2>1, <3>1 DEF Accepts, From, Targeted, Active, Terminal
    <3>3. c.session \in Sessions
      BY <2>2, <3>2 DEF WellFormed, Machines
    <3>4. /\ Apply(a, c).events = Append(moved, SessionFinished(c.session, o))
          /\ Apply(a, c).results = Recorded(a.results, c.session, o)
      BY <1>2, <2>6 DEF Apply
    <3> HIDE DEF moved, o
    <3>. QED
      BY <2>2, <2>4, <3>1, <3>3, <3>4, ReportedAgrees
  <2>. QED
    BY <2>5, <2>6
<1>. QED
  BY <1>1, <1>2

(***************************************************************************)
(* The specification.                                                      *)
(***************************************************************************)

\* What the callers of the controller can do leaves it good.
LEMMA ControllerIsGood ==
  AppSpec => []GoodApp(app)
<1>1. AppInit => GoodApp(app)
  BY InitialIsGood DEF AppInit, app, InitialApp
<1>2. GoodApp(app) /\ [AppNext]_appVars => GoodApp(app)'
  <2> SUFFICES ASSUME GoodApp(app), [AppNext]_appVars
               PROVE  GoodApp(app)'
    OBVIOUS
  <2>1. \A a \in AppRecords : SetApp(a) => app' = a
    BY DEF AppRecords, SetApp, app
  <2>2. ASSUME NEW c \in Commands, ApplyCommand(c)
        PROVE  GoodApp(app)'
    <3>1. GoodApp(Apply(app, c))
      BY ApplyIsGood
    <3>2. app' = Apply(app, c)
      BY <2>1, <2>2, <3>1 DEF GoodApp, ApplyCommand
    <3>. QED
      BY <3>1, <3>2
  <2>3. ASSUME NEW s \in Sessions, FinishSession(s, "completed")
        PROVE  GoodApp(app)'
    <3>1. s < machine.nextId \/ machine.nextId = MaxId
      BY <2>3 DEF FinishSession, Issued, GoodApp, WellFormed, app
    <3>2. GoodApp(Finish(app, s, "completed"))
      BY <3>1, FinishIsGood DEF app, Outcomes
    <3>3. app' = Finish(app, s, "completed")
      BY <2>1, <2>3, <3>2 DEF GoodApp, FinishSession
    <3>. QED
      BY <3>2, <3>3
  <2>4. ASSUME DrainEvents
        PROVE  GoodApp(app)'
    <3>1. GoodApp(Drained(app))
      BY DrainedIsGood
    <3>2. app' = Drained(app)
      BY <2>1, <2>4, <3>1 DEF GoodApp, DrainEvents
    <3>. QED
      BY <3>1, <3>2
  <2>5. ASSUME TakeWake
        PROVE  GoodApp(app)'
    <3>1. GoodApp([app EXCEPT !.wake = FALSE])
      BY NotifiedIsGood
    <3>2. \A a \in AppRecords, w \in BOOLEAN :
            [a EXCEPT !.wake = w] = [machine |-> a.machine, events |-> a.events,
                                     results |-> a.results, wake |-> w]
      BY DEF AppRecords
    <3>3. app \in AppRecords
      BY DEF GoodApp
    <3>4. app' = [machine |-> app.machine, events |-> app.events,
                  results |-> app.results, wake |-> FALSE]
      BY <2>5 DEF TakeWake, app
    <3>. QED
      BY <3>1, <3>2, <3>3, <3>4
  <2>6. CASE UNCHANGED appVars
    BY <2>6 DEF appVars, app
  <2>. QED
    BY <2>2, <2>3, <2>4, <2>5, <2>6 DEF AppNext
<1>. QED
  BY <1>1, <1>2, PTL DEF AppSpec

\* The machine, the queue, the cache and the wake-up are always what their
\* declarations say.
THEOREM ControllerTypeCorrect ==
  AppSpec => []AppTypeOK
<1>1. GoodApp(app) => AppTypeOK
  BY DEF GoodApp, AppRecords, AppTypeOK, app
<1>. QED
  BY <1>1, ControllerIsGood, PTL

\* The event queue never outgrows its limit, for every limit of at least 3.
THEOREM QueueNeverOverflows ==
  AppSpec => []EventsBounded
<1>1. GoodApp(app) => EventsBounded
  BY DEF GoodApp, EventsBounded, app
<1>. QED
  BY <1>1, ControllerIsGood, PTL

\* The cache keeps one result per session, and never too many.
THEOREM CacheKeepsOneResultPerSession ==
  AppSpec => []OneResultPerSession
<1>1. GoodApp(app) => OneResultPerSession
  BY DEF GoodApp, CacheOK, OneResultPerSession, app
<1>. QED
  BY <1>1, ControllerIsGood, PTL

\* The machine holds a session exactly when it is not idle, and never one that
\* it would issue again.
THEOREM MachineStaysWellFormed ==
  AppSpec => []MachineWellFormed
<1>1. GoodApp(app) => MachineWellFormed
  BY DEF GoodApp, MachineWellFormed, app
<1>. QED
  BY <1>1, ControllerIsGood, PTL

\* Whoever follows the signals ends up with the current state.
THEOREM SignalsEndWithTheCurrentState ==
  AppSpec => []NewestStateIsCurrent
<1>1. GoodApp(app) => NewestStateIsCurrent
  BY DEF GoodApp, NewestIsCurrent, NewestStateIsCurrent, app
<1>. QED
  BY <1>1, ControllerIsGood, PTL

\* No sequence of commands takes a session back to an earlier phase.
THEOREM SessionsOnlyGoForward ==
  AppSpec => ForwardOnly
<1>1. GoodApp(app) /\ [AppNext]_appVars => [GoesForward(machine, machine')]_appVars
  <2> SUFFICES ASSUME GoodApp(app), [AppNext]_appVars
               PROVE  GoesForward(machine, machine') \/ UNCHANGED appVars
    BY DEF appVars
  <2>1. ASSUME NEW c \in Commands, ApplyCommand(c)
        PROVE  GoesForward(machine, machine')
    <3>1. machine' = Apply(app, c).machine
      BY <2>1 DEF ApplyCommand, SetApp
    <3>2. app.machine = machine
      BY DEF app
    <3>. QED
      BY <3>1, <3>2, ApplyGoesForward
  <2>2. CASE machine' = machine
    <3>1. Rank[machine.phase] \in Nat
      BY DEF Rank, GoodApp, AppRecords, Machines, app
    <3>. QED
      BY <2>2, <3>1 DEF GoesForward
  <2>3. \A s \in Sessions : FinishSession(s, "completed") => machine' = machine
    BY DEF FinishSession, SetApp, Finish, app
  <2>4. DrainEvents => machine' = machine
    <3>1. \A a \in AppRecords : Drained(a).machine = a.machine
      BY DEF AppRecords, Drained
    <3>. QED
      BY <3>1 DEF DrainEvents, SetApp, GoodApp, app
  <2>5. TakeWake => machine' = machine
    BY DEF TakeWake
  <2>. QED
    BY <2>1, <2>2, <2>3, <2>4, <2>5 DEF AppNext
<1>. QED
  BY <1>1, ControllerIsGood, PTL DEF AppSpec, ForwardOnly

\* A session that starts is not one that a result or an event speaks of.
THEOREM SessionsStartFresh ==
  AppSpec => FreshSession
<1> DEFINE Fresh ==
      (/\ machine.phase # "preparing" /\ machine'.phase = "preparing"
       /\ machine.nextId # MaxId)
      => /\ \A i \in 1..Len(results) : results[i].session # machine'.session
         /\ \A i \in 1..Len(events)  : events[i].session # machine'.session
<1>1. GoodApp(app) /\ [AppNext]_appVars => [Fresh]_appVars
  <2> SUFFICES ASSUME GoodApp(app), AppNext,
                      machine.phase # "preparing", machine'.phase = "preparing",
                      machine.nextId # MaxId
               PROVE  /\ \A i \in 1..Len(results) : results[i].session # machine'.session
                      /\ \A i \in 1..Len(events)  : events[i].session # machine'.session
    OBVIOUS
  <2>1. machine' = machine \/ \E c \in Commands : ApplyCommand(c)
    <3>1. \A a \in AppRecords : Drained(a).machine = a.machine
      BY DEF AppRecords, Drained
    <3>. QED
      BY <3>1 DEF AppNext, FinishSession, DrainEvents, TakeWake, SetApp,
                  Finish, GoodApp, app
  <2>2. PICK c \in Commands : ApplyCommand(c)
    BY <2>1
  <2>3. Applies(app, c) /\ machine' = After(machine, c)
    BY <2>2 DEF ApplyCommand, SetApp, Apply, app
  <2>4. c.kind = "start"
    BY <2>3 DEF After, Target, Commands, Targeted
  <2>5. machine'.session = machine.nextId
    BY <2>3, <2>4 DEF After
  <2>6. /\ \A i \in 1..Len(results) : results[i].session < machine.nextId
        /\ \A i \in 1..Len(events)  : events[i].session  < machine.nextId
    BY DEF GoodApp, OnlyIssued, app
  <2>7. machine.nextId \in Nat
    BY MaxIdAssumption DEF GoodApp, AppRecords, Machines, Sessions, app
  <2>. QED
    BY <2>5, <2>6, <2>7
<1>. QED
  BY <1>1, ControllerIsGood, PTL DEF AppSpec, FreshSession

\* Whoever polls finds what the signals told, unless so many sessions ended later that the
\* cache has no room for it.
THEOREM PollersFindWhatWasTold ==
  AppSpec => []PollersAgreeWithSignals
<1> DEFINE I == Agrees(events, results)
<1>1. AppInit => I
  <2> SUFFICES ASSUME AppInit PROVE I
    OBVIOUS
  <2>1. \A i \in 1..Len(events) : events[i].outcome = "none"
    BY DEF AppInit, InitialApp, StateChanged
  <2>. QED
    BY <2>1 DEF Agrees
<1>2. GoodApp(app) /\ I /\ [AppNext]_appVars => I'
  <2> SUFFICES ASSUME GoodApp(app), I, [AppNext]_appVars
               PROVE  I'
    OBVIOUS
  <2>1. /\ app.events = events /\ app.results = results
        /\ events \in Seq(Events) /\ CacheOK(results)
    BY DEF app, GoodApp, AppRecords
  <2>2. ASSUME NEW c \in Commands, ApplyCommand(c)
        PROVE  I'
    <3>1. events' = Apply(app, c).events /\ results' = Apply(app, c).results
      BY <2>2 DEF ApplyCommand, SetApp
    <3>2. Agrees(Apply(app, c).events, Apply(app, c).results)
      BY <2>1, ApplyAgrees
    <3>. QED
      BY <3>1, <3>2
  <2>3. ASSUME NEW s \in Sessions, FinishSession(s, "completed")
        PROVE  I'
    <3> DEFINE b == Finish(app, s, "completed")
    <3>1. events' = b.events /\ results' = b.results
      BY <2>3 DEF FinishSession, SetApp
    <3>2. CASE ~ CanFinish(app)
      BY <2>1, <3>1, <3>2 DEF Finish
    <3>3. CASE CanFinish(app)
      <4>1. /\ events' = Append(events, SessionFinished(s, "completed"))
            /\ results' = Recorded(results, s, "completed")
        BY <2>1, <3>1, <3>3 DEF Finish
      <4>2. Agrees(Append(events, SessionFinished(s, "completed")),
                   Recorded(results, s, "completed"))
        BY <2>1, ReportedAgrees DEF Outcomes
      <4>. QED
        BY <4>1, <4>2
    <3>. QED
      BY <3>2, <3>3
  <2>4. ASSUME DrainEvents
        PROVE  I'
    <3>1. \A a \in AppRecords : Drained(a).events = <<>>
      BY DEF Drained, AppRecords
    <3>2. events' = <<>>
      BY <2>4, <3>1 DEF DrainEvents, SetApp, GoodApp
    <3>. QED
      BY <3>2 DEF Agrees
  <2>5. CASE TakeWake \/ UNCHANGED appVars
    BY <2>5 DEF TakeWake, appVars
  <2>. QED
    BY <2>2, <2>3, <2>4, <2>5 DEF AppNext
<1>3. I => PollersAgreeWithSignals
  <2> SUFFICES ASSUME I, NEW i \in 1..Len(events),
                      events[i].outcome # "none",
                      events[i].session \notin ToldLater(events, i)
               PROVE  \/ \E k \in 1..Len(results) : results[k] = ResultOf(events[i])
                      \/ FillsCache(ToldLater(events, i))
    BY DEF PollersAgreeWithSignals, ToldLater, FillsCache, ResultOf
  <2>. QED
    BY DEF Agrees, Followed
<1>. QED
  BY <1>1, <1>2, <1>3, ControllerIsGood, PTL DEF AppSpec
=============================================================================
