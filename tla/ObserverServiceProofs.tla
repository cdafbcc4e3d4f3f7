------------------------ MODULE ObserverServiceProofs ------------------------
(***************************************************************************)
(* The daemon shows a client what PublishedActivity says, for every value  *)
(* of the constants: what each slot does to the published state, the step  *)
(* of the tracker each reaction goes with, the invariants that relate the  *)
(* two, and the refinement.  Then what a D-Bus client makes of it: the     *)
(* view it folds from the signals, and what it reads by calls.             *)
(***************************************************************************)
EXTENDS PropertyTree, ActivityTrackerProofs, FoldLemmas

\* What the slots need to know of the published state: which members it has.
Members == {"activity", "location", "live", "announced", "presence", "signals", "ended"}

IsPublished(p) == DOMAIN p = Members

\* The activity object is there, and announced, exactly while there is an activity.
Announced(p) ==
  /\ p.live \in BOOLEAN
  /\ p.live <=> p.activity # None
  /\ p.announced # {} <=> p.live

\* Discord was handed the presence of this activity and location.
PresenceCurrent(p) ==
  p.presence # None => p.presence = activityFor(p.activity, toVariantMap(p.location))

-----------------------------------------------------------------------------
(* What each slot does. *)

\* A signal is sent, and nothing else changes.
LEMMA SendEffect ==
  ASSUME NEW p, IsPublished(p), NEW s
  PROVE  /\ IsPublished(Send(p, s))
         /\ Send(p, s).activity = p.activity
         /\ Send(p, s).live = p.live
         /\ Send(p, s).announced = p.announced
         /\ Send(p, s).ended = p.ended
         /\ Send(p, s).location = p.location
         /\ Send(p, s).presence = p.presence
BY DEF IsPublished, Members, Send

\* The presence is handed over, and nothing else changes.
LEMMA PresenceEffect ==
  ASSUME NEW p, IsPublished(p)
  PROVE  /\ IsPublished(updatePresence(p))
         /\ updatePresence(p).activity = p.activity
         /\ updatePresence(p).live = p.live
         /\ updatePresence(p).announced = p.announced
         /\ updatePresence(p).ended = p.ended
         /\ updatePresence(p).location = p.location
         /\ PresenceCurrent(updatePresence(p))
BY DEF IsPublished, Members, updatePresence, PresenceCurrent

\* An activity has an object with at least one interface.
LEMMA InterfacesOfActivity ==
  ASSUME NEW activity, activity # None
  PROVE  InterfacesOf(activity) # {}
BY DEF InterfacesOf

\* Once there is an activity, its object is live.
LEMMA AppearedEffect ==
  ASSUME NEW p, IsPublished(p), p.live \in BOOLEAN,
         p.live => p.activity # None, p.announced # {} <=> p.live
  PROVE  LET q == activityAppeared(p) IN
         /\ IsPublished(q)
         /\ q.activity = p.activity
         /\ q.ended = p.ended
         /\ q.location = p.location
         /\ q.presence = p.presence
         /\ Announced(q)
<1>1. CASE p.live \/ p.activity = None
  BY <1>1 DEF activityAppeared, Announced
<1>2. CASE ~(p.live \/ p.activity = None)
  <2> DEFINE r == [p EXCEPT !.live = TRUE, !.announced = InterfacesOf(p.activity)]
             s == [signal |-> "InterfacesAdded", interfaces |-> Snapshot(p.activity)]
             t == Send(r, s)
  <2>1. /\ IsPublished(r)
        /\ r.activity = p.activity /\ r.ended = p.ended
        /\ r.location = p.location /\ r.presence = p.presence
        /\ r.live = TRUE /\ r.announced = InterfacesOf(p.activity)
    BY DEF IsPublished, Members
  <2>2. activityAppeared(p) = t
    BY <1>2 DEF activityAppeared
  <2> HIDE DEF r, s
  <2>3. /\ IsPublished(t)
        /\ t.activity = p.activity /\ t.ended = p.ended
        /\ t.location = p.location /\ t.presence = p.presence
        /\ t.live = TRUE /\ t.announced = InterfacesOf(p.activity)
    BY <2>1, SendEffect
  <2>4. InterfacesOf(p.activity) # {}
    BY <1>2, InterfacesOfActivity
  <2> HIDE DEF t
  <2> QED
    BY <1>2, <2>2, <2>3, <2>4 DEF Announced
<1> QED
  BY <1>1, <1>2

\* The object is gone, whether there was one or not.
LEMMA DisappearedEffect ==
  ASSUME NEW p, IsPublished(p), Announced(p)
  PROVE  LET q == activityDisappeared(p) IN
         /\ IsPublished(q)
         /\ q.activity = p.activity
         /\ q.ended = p.ended
         /\ q.location = p.location
         /\ q.presence = p.presence
         /\ q.live = FALSE
         /\ q.announced = {}
<1>1. CASE ~p.live
  BY <1>1 DEF activityDisappeared, Announced
<1>2. CASE p.live
  <2> DEFINE s == [signal |-> "InterfacesRemoved", interfaces |-> p.announced]
             r == Send(p, s)
  <2>1. activityDisappeared(p) = [r EXCEPT !.live = FALSE, !.announced = {}]
    BY <1>2 DEF activityDisappeared, Announced
  <2>2. /\ IsPublished(r)
        /\ r.activity = p.activity /\ r.ended = p.ended
        /\ r.location = p.location /\ r.presence = p.presence
    BY SendEffect
  <2> HIDE DEF r
  <2> QED
    BY <2>1, <2>2 DEF IsPublished, Members
<1> QED
  BY <1>1, <1>2 DEF Announced

\* The activity becomes the one that is set, unless their bags are the same.
LEMMA SetActivityEffect ==
  ASSUME NEW p, IsPublished(p), NEW activity,
         p.live \in BOOLEAN, p.announced # {} <=> p.live, p.live => activity # None,
         p.activity # activity => BagOf(p.activity) # BagOf(activity),
         p.activity = activity => (p.live <=> activity # None)
  PROVE  LET q == setActivity(p, activity) IN
         /\ IsPublished(q)
         /\ q.activity = activity
         /\ q.ended = p.ended
         /\ Announced(q)
         /\ PresenceCurrent(p) => PresenceCurrent(q)
<1>1. CASE p.activity = activity
  BY <1>1 DEF setActivity, Announced
<1>2. CASE p.activity # activity
  <2> DEFINE r == [p EXCEPT !.activity = activity]
             s == PropertyChanged("activity", BagOf(activity))
             t == Send(r, s)
             u == activityAppeared(t)
  <2>1. setActivity(p, activity) = updatePresence(u)
    BY <1>2 DEF setActivity
  <2>2. /\ IsPublished(r)
        /\ r.activity = activity /\ r.ended = p.ended
        /\ r.live = p.live /\ r.announced = p.announced
    BY DEF IsPublished, Members
  <2> HIDE DEF r, s
  <2>3. /\ IsPublished(t)
        /\ t.activity = activity /\ t.ended = p.ended
        /\ t.live = p.live /\ t.announced = p.announced
    BY <2>2, SendEffect
  <2> HIDE DEF t
  <2>4. IsPublished(u) /\ u.activity = activity /\ u.ended = p.ended /\ Announced(u)
    BY <2>3, AppearedEffect
  <2> HIDE DEF u
  <2> QED
    BY <2>1, <2>4, PresenceEffect DEF Announced
<1> QED
  BY <1>1, <1>2

\* A run has a bag, and an encounter's is none of a dungeon's.
LEMMA BagsDiffer ==
  /\ BagOf(None) = None
  /\ \A run \in Runs : run # None /\ BagOf(run) # BagOf(None)
  /\ \A a \in Runs, b \in Runs : a.kind # b.kind => BagOf(a) # BagOf(b)
<1>1. BagOf(None) = None
  BY DEF BagOf
<1>2. \A run \in Runs : run # None /\ BagOf(run) # BagOf(None)
  BY <1>1, NoneAssumption, BagAssumption
<1>3. ASSUME NEW a \in Encounters, NEW b \in Dungeons
      PROVE  BagOf(a) # BagOf(b)
  <2>1. BagOf(a) = fromEncounter(a)
    BY RunKinds DEF BagOf
  <2>2. BagOf(b) = fromDungeon(b)
    BY RunKinds DEF BagOf
  <2>3. fromEncounter(a).type = Str("encounter") /\ fromDungeon(b).type = Str("dungeon")
    BY DEF fromEncounter, fromDungeon
  <2>4. Str("encounter") # Str("dungeon")
    BY DEF Str
  <2> QED
    BY <2>1, <2>2, <2>3, <2>4
<1>4. \A a \in Runs, b \in Runs : a.kind # b.kind => BagOf(a) # BagOf(b)
  BY <1>3, RunKinds DEF Runs
<1> QED
  BY <1>1, <1>2, <1>4

\* A stop is reported as its run's, and empties the property whatever it shows.
LEMMA EndActivityEffect ==
  ASSUME NEW p, IsPublished(p), Announced(p), p.activity \in Runs \cup {None},
         NEW stopped
  PROVE  LET q == endActivity(p, stopped) IN
         /\ IsPublished(q)
         /\ q.activity = None
         /\ q.ended = stopped.run
         /\ Announced(q)
         /\ PresenceCurrent(p) => PresenceCurrent(q)
<1> DEFINE r == [p EXCEPT !.ended = stopped.run]
           s == [signal |-> "ActivityEnded", activity |-> EndedBagOf(stopped)]
           t == EndReported(p, stopped)
           u == activityDisappeared(t)
<1>1. /\ IsPublished(r)
      /\ r.activity = p.activity /\ r.ended = stopped.run
      /\ r.live = p.live /\ r.announced = p.announced
      /\ r.location = p.location /\ r.presence = p.presence
  BY DEF IsPublished, Members
<1>2. t = Send(r, s)
  BY DEF EndReported
<1> HIDE DEF r, s
<1>3. /\ IsPublished(t) /\ Announced(t)
      /\ t.activity = p.activity /\ t.ended = stopped.run
      /\ t.location = p.location /\ t.presence = p.presence
  BY <1>1, <1>2, SendEffect DEF Announced
<1> HIDE DEF t
<1>4. /\ IsPublished(u)
      /\ u.activity = p.activity /\ u.ended = stopped.run
      /\ u.live = FALSE /\ u.announced = {}
      /\ u.location = p.location /\ u.presence = p.presence
  BY <1>3, DisappearedEffect
<1>5. endActivity(p, stopped) = setActivity(u, None)
  BY DEF endActivity, t, u
<1> HIDE DEF u
<1>6. /\ u.activity # None => BagOf(u.activity) # BagOf(None)
      /\ u.live \in BOOLEAN
      /\ u.announced # {} <=> u.live
      /\ u.live => None # None
      /\ u.activity = None => (u.live <=> None # None)
  BY <1>4, BagsDiffer
<1>7. /\ IsPublished(setActivity(u, None))
      /\ setActivity(u, None).activity = None
      /\ setActivity(u, None).ended = u.ended
      /\ Announced(setActivity(u, None))
      /\ PresenceCurrent(u) => PresenceCurrent(setActivity(u, None))
  BY <1>4, <1>6, SetActivityEffect
<1>8. PresenceCurrent(p) => PresenceCurrent(u)
  BY <1>4 DEF PresenceCurrent
<1> QED
  BY <1>4, <1>5, <1>7, <1>8

\* A start is shown if nothing is, or a run of the other kind.
LEMMA BeginActivityEffect ==
  ASSUME NEW p, IsPublished(p), Announced(p), p.activity \in Runs \cup {None},
         NEW run \in Runs, p.activity # None => p.activity.kind # run.kind
  PROVE  LET q == setActivity(p, run) IN
         /\ IsPublished(q)
         /\ q.activity = run
         /\ q.ended = p.ended
         /\ Announced(q)
         /\ PresenceCurrent(p) => PresenceCurrent(q)
<1>1. run # None /\ p.activity # run /\ BagOf(p.activity) # BagOf(run)
  BY BagsDiffer
<1> QED
  BY <1>1, SetActivityEffect DEF Announced

\* The location has no part in it.
LEMMA SetLocationEffect ==
  ASSUME NEW p, IsPublished(p), Announced(p), NEW location
  PROVE  LET q == setLocation(p, location) IN
         /\ IsPublished(q)
         /\ q.activity = p.activity
         /\ q.ended = p.ended
         /\ Announced(q)
         /\ PresenceCurrent(p) => PresenceCurrent(q)
<1> DEFINE r == [p EXCEPT !.location = location]
           s == PropertyChanged("location", toVariantMap(location))
           t == Send(r, s)
<1>1. /\ IsPublished(r)
      /\ r.activity = p.activity /\ r.ended = p.ended
      /\ r.live = p.live /\ r.announced = p.announced
      /\ r.presence = p.presence
  BY DEF IsPublished, Members
<1>2. \/ setLocation(p, location) = r /\ toVariantMap(p.location) = toVariantMap(r.location)
      \/ setLocation(p, location) = updatePresence(t)
  BY DEF setLocation, IsPublished, Members
<1> HIDE DEF r, s
<1>3. /\ IsPublished(t)
      /\ t.activity = p.activity /\ t.ended = p.ended
      /\ t.live = p.live /\ t.announced = p.announced
  BY <1>1, SendEffect
<1> HIDE DEF t
<1>4. CASE setLocation(p, location) = r /\ toVariantMap(p.location) = toVariantMap(r.location)
  BY <1>1, <1>4 DEF Announced, PresenceCurrent
<1>5. CASE setLocation(p, location) = updatePresence(t)
  BY <1>3, <1>5, PresenceEffect DEF Announced
<1> QED
  BY <1>2, <1>4, <1>5

\* The slots of one tracker step together: what is shown and what is reported
\* depend on what the step stopped and started, and on nothing else.
LEMMA ReactEffect ==
  ASSUME NEW p, IsPublished(p), Announced(p), p.activity \in Runs \cup {None},
         NEW e \in Emissions,
         e.started # None /\ e.stopped = None /\ p.activity # None =>
           p.activity.kind # e.started.kind
  PROVE  LET q == React(p, e) IN
         /\ IsPublished(q)
         /\ q.activity = IF e.started # None THEN e.started
                         ELSE IF e.stopped # None THEN None ELSE p.activity
         /\ q.ended = IF e.stopped = None THEN p.ended ELSE e.stopped.run
         /\ Announced(q)
         /\ PresenceCurrent(p) => PresenceCurrent(q)
<1> DEFINE a == IF e.stopped = None THEN p ELSE endActivity(p, e.stopped)
           b == IF e.started = None THEN a ELSE setActivity(a, e.started)
           c == IF e.uiMap = None THEN b
                ELSE setLocation(b, [b.location EXCEPT !.uiMap = e.uiMap])
           d == IF e.zone = None THEN c
                ELSE setLocation(c, [c.location EXCEPT !.zone = e.zone])
<1>1. e.started \in Runs \cup {None}
  BY DEF Emissions
<1>2. /\ IsPublished(a)
      /\ a.activity = IF e.stopped # None THEN None ELSE p.activity
      /\ a.ended = IF e.stopped = None THEN p.ended ELSE e.stopped.run
      /\ Announced(a)
      /\ PresenceCurrent(p) => PresenceCurrent(a)
  BY EndActivityEffect
<1>3. React(p, e) = d
  BY DEF React
<1> HIDE DEF a
<1>4. /\ IsPublished(b)
      /\ b.activity = IF e.started # None THEN e.started ELSE a.activity
      /\ b.ended = a.ended
      /\ Announced(b)
      /\ PresenceCurrent(a) => PresenceCurrent(b)
  BY <1>1, <1>2, BeginActivityEffect
<1> HIDE DEF b
<1>5. /\ IsPublished(c) /\ c.activity = b.activity /\ c.ended = b.ended /\ Announced(c)
      /\ PresenceCurrent(b) => PresenceCurrent(c)
  BY <1>4, SetLocationEffect
<1> HIDE DEF c
<1>6. /\ IsPublished(d) /\ d.activity = c.activity /\ d.ended = c.ended /\ Announced(d)
      /\ PresenceCurrent(c) => PresenceCurrent(d)
  BY <1>5, SetLocationEffect
<1> HIDE DEF d
<1> QED
  BY <1>2, <1>3, <1>4, <1>5, <1>6

-----------------------------------------------------------------------------
(* The order of one step's signals. *)

IsSignals(s) == \E S : s \in Seq(S)

Has(s, signal) == \E i \in 1 .. Len(s) : s[i].signal = signal

InOrder(s) ==
  \A i \in 1 .. Len(s) :
    /\ s[i].signal = "InterfacesRemoved" =>
         \E j \in 1 .. i - 1 : s[j].signal = "ActivityEnded"
    /\ s[i].signal = "InterfacesAdded" =>
         ~\E j \in i + 1 .. Len(s) : s[j].signal \in {"ActivityEnded", "InterfacesRemoved"}

SentInOrder(p) == IsPublished(p) /\ IsSignals(p.signals) /\ InOrder(p.signals)

Before(p) == SentInOrder(p) /\ ~Has(p.signals, "InterfacesAdded")

\* What a signal sent last needs of those before it.
LEMMA SendOrder ==
  ASSUME NEW p, SentInOrder(p), NEW x,
         x.signal \in {"ActivityEnded", "InterfacesRemoved"} => Before(p),
         x.signal = "InterfacesRemoved" => Has(p.signals, "ActivityEnded")
  PROVE  /\ SentInOrder(Send(p, x))
         /\ Before(p) /\ x.signal # "InterfacesAdded" => Before(Send(p, x))
         /\ x.signal = "ActivityEnded" => Has(Send(p, x).signals, "ActivityEnded")
<1> DEFINE s == p.signals
           t == Append(s, x)
           n == Len(s)
<1>1. IsPublished(Send(p, x)) /\ Send(p, x).signals = t
  BY DEF SentInOrder, Send, IsPublished, Members
<1>2. PICK S : s \in Seq(S)
  BY DEF SentInOrder, IsSignals
<1>3. s \in Seq(S \cup {x}) /\ n \in Nat
  BY <1>2
<1>4. /\ t \in Seq(S \cup {x}) /\ Len(t) = n + 1
      /\ \A i \in 1 .. n : t[i] = s[i]
      /\ t[n + 1] = x
  BY <1>3
<1>5. IsSignals(t)
  BY <1>4 DEF IsSignals
<1>6. /\ InOrder(s)
      /\ x.signal \in {"ActivityEnded", "InterfacesRemoved"} =>
           \A i \in 1 .. n : s[i].signal # "InterfacesAdded"
      /\ x.signal = "InterfacesRemoved" => \E j \in 1 .. n : s[j].signal = "ActivityEnded"
  BY DEF SentInOrder, Before, Has
<1> HIDE DEF s, t, n
<1>7. InOrder(t)
  <2> SUFFICES ASSUME NEW i \in 1 .. n + 1
               PROVE  /\ t[i].signal = "InterfacesRemoved" =>
                           \E j \in 1 .. i - 1 : t[j].signal = "ActivityEnded"
                      /\ t[i].signal = "InterfacesAdded" =>
                           ~\E j \in i + 1 .. n + 1 :
                              t[j].signal \in {"ActivityEnded", "InterfacesRemoved"}
    BY <1>4 DEF InOrder
  <2>1. CASE i = n + 1
    <3>1. 1 .. i - 1 = 1 .. n /\ i + 1 .. n + 1 = {}
      BY <1>3, <2>1
    <3> QED
      BY <1>4, <1>6, <2>1, <3>1
  <2>2. CASE i # n + 1
    <3>1. i \in 1 .. n /\ t[i] = s[i]
      BY <1>3, <1>4, <2>2
    <3>2. \A j \in 1 .. i - 1 : j \in 1 .. n
      BY <1>3, <3>1
    <3>3. t[i].signal = "InterfacesRemoved" =>
            \E j \in 1 .. i - 1 : t[j].signal = "ActivityEnded"
      BY <1>4, <1>6, <3>1, <3>2 DEF InOrder, n
    <3>4. \A j \in i + 1 .. n + 1 : j = n + 1 \/ (j \in i + 1 .. n /\ j \in 1 .. n)
      BY <1>3, <3>1
    <3>5. t[i].signal = "InterfacesAdded" =>
            ~\E j \in i + 1 .. n + 1 : t[j].signal \in {"ActivityEnded", "InterfacesRemoved"}
      BY <1>4, <1>6, <3>1, <3>4 DEF InOrder, n
    <3> QED
      BY <3>3, <3>5
  <2> QED
    BY <2>1, <2>2
<1>8. \A i \in 1 .. n + 1 : i = n + 1 \/ i \in 1 .. n
  BY <1>3
<1>9. ~Has(s, "InterfacesAdded") /\ x.signal # "InterfacesAdded" => ~Has(t, "InterfacesAdded")
  BY <1>4, <1>8 DEF Has, n
<1>10. x.signal = "ActivityEnded" => Has(t, "ActivityEnded")
  <2>1. n + 1 \in 1 .. Len(t)
    BY <1>3, <1>4
  <2> QED
    BY <1>4, <2>1 DEF Has
<1> QED
  BY <1>1, <1>5, <1>7, <1>9, <1>10 DEF SentInOrder, Before, s

\* Handing over the presence sends nothing.
LEMMA PresenceOrder ==
  ASSUME NEW p, IsPublished(p)
  PROVE  IsPublished(updatePresence(p)) /\ updatePresence(p).signals = p.signals
BY DEF IsPublished, Members, updatePresence

\* A new activity may be announced after anything; going idle announces nothing.
LEMMA SetActivityOrder ==
  ASSUME NEW p, SentInOrder(p), NEW activity
  PROVE  /\ SentInOrder(setActivity(p, activity))
         /\ activity = None /\ Before(p) => Before(setActivity(p, activity))
<1> DEFINE a == [p EXCEPT !.activity = activity]
           changed == PropertyChanged("activity", BagOf(activity))
           b == Send(a, changed)
           c == [b EXCEPT !.live = TRUE, !.announced = InterfacesOf(b.activity)]
           added == [signal |-> "InterfacesAdded", interfaces |-> Snapshot(b.activity)]
           d == activityAppeared(b)
<1>1. SentInOrder(a) /\ (Before(p) => Before(a)) /\ a.activity = activity
  BY DEF SentInOrder, Before, IsPublished, Members
<1>2. changed.signal = "PropertiesChanged"
  BY DEF PropertyChanged
<1>3. added.signal = "InterfacesAdded"
  OBVIOUS
<1>4. setActivity(p, activity) = p \/ setActivity(p, activity) = updatePresence(d)
  BY DEF setActivity
<1>5. d = b \/ (d = Send(c, added) /\ b.activity # None)
  BY DEF activityAppeared
<1> HIDE DEF a, changed
<1>6. SentInOrder(b) /\ (Before(p) => Before(b))
  BY <1>1, <1>2, SendOrder
<1>7. b.activity = activity
  BY <1>1, SendEffect DEF SentInOrder
<1> HIDE DEF b
<1>8. SentInOrder(c)
  BY <1>6 DEF SentInOrder, IsPublished, Members
<1> HIDE DEF c, added, d
<1>9. SentInOrder(d) /\ (activity = None /\ Before(p) => Before(d))
  BY <1>3, <1>5, <1>6, <1>7, <1>8, SendOrder
<1> QED
  BY <1>4, <1>9, PresenceOrder DEF SentInOrder, Before

\* The end comes first, then the object goes, and nothing is announced.
LEMMA EndActivityOrder ==
  ASSUME NEW p, Before(p), NEW stopped
  PROVE  Before(endActivity(p, stopped))
<1> DEFINE a == [p EXCEPT !.ended = stopped.run]
           over == [signal |-> "ActivityEnded", activity |-> EndedBagOf(stopped)]
           b == Send(a, over)
           removed == [signal |-> "InterfacesRemoved", interfaces |-> b.announced]
           c == Send(b, removed)
           d == activityDisappeared(b)
<1>1. Before(a) /\ SentInOrder(a)
  BY DEF SentInOrder, Before, IsPublished, Members
<1>2. over.signal = "ActivityEnded" /\ removed.signal = "InterfacesRemoved"
  OBVIOUS
<1>3. endActivity(p, stopped) = setActivity(d, None)
  BY DEF endActivity, EndReported
<1>4. \/ d = b
      \/ d = [b EXCEPT !.live = FALSE, !.announced = {}]
      \/ d = [c EXCEPT !.live = FALSE, !.announced = {}]
  BY DEF activityDisappeared
<1> HIDE DEF a, over
<1>5. Before(b) /\ SentInOrder(b) /\ Has(b.signals, "ActivityEnded")
  BY <1>1, <1>2, SendOrder
<1> HIDE DEF b, removed
<1>6. Before(c)
  BY <1>2, <1>5, SendOrder
<1> HIDE DEF c, d
<1>7. Before(d) /\ SentInOrder(d)
  BY <1>4, <1>5, <1>6 DEF SentInOrder, Before, IsPublished, Members
<1> QED
  BY <1>3, <1>7, SetActivityOrder

\* A location is a property only.
LEMMA SetLocationOrder ==
  ASSUME NEW p, SentInOrder(p), NEW location
  PROVE  SentInOrder(setLocation(p, location))
<1> DEFINE a == [p EXCEPT !.location = location]
           changed == PropertyChanged("location", toVariantMap(location))
           b == Send(a, changed)
<1>1. SentInOrder(a)
  BY DEF SentInOrder, IsPublished, Members
<1>2. changed.signal = "PropertiesChanged"
  BY DEF PropertyChanged
<1>3. setLocation(p, location) = a \/ setLocation(p, location) = updatePresence(b)
  BY DEF setLocation
<1> HIDE DEF a, changed
<1>4. SentInOrder(b)
  BY <1>1, <1>2, SendOrder
<1> HIDE DEF b
<1> QED
  BY <1>1, <1>3, <1>4, PresenceOrder DEF SentInOrder

\* A step sends what it stops before what it starts.
LEMMA ReactOrder ==
  ASSUME NEW p, Before(p), NEW e
  PROVE  SentInOrder(React(p, e))
<1> DEFINE a == IF e.stopped = None THEN p ELSE endActivity(p, e.stopped)
           b == IF e.started = None THEN a ELSE setActivity(a, e.started)
           c == IF e.uiMap = None THEN b
                ELSE setLocation(b, [b.location EXCEPT !.uiMap = e.uiMap])
           d == IF e.zone = None THEN c
                ELSE setLocation(c, [c.location EXCEPT !.zone = e.zone])
<1>1. React(p, e) = d
  BY DEF React
<1>2. SentInOrder(a)
  BY EndActivityOrder DEF Before
<1> HIDE DEF a
<1>3. SentInOrder(b)
  BY <1>2, SetActivityOrder
<1> HIDE DEF b
<1>4. SentInOrder(c)
  BY <1>3, SetLocationOrder
<1> HIDE DEF c
<1>5. SentInOrder(d)
  BY <1>4, SetLocationOrder
<1> QED
  BY <1>1, <1>5

-----------------------------------------------------------------------------
(* What a step of the tracker does to its slots, and what it emits for it. *)

SlotBegins(slot, run) ==
  /\ OpenRuns[slot] = None
  /\ OpenRuns["dungeon"] = None
  /\ OpenRuns' = [OpenRuns EXCEPT ![slot] = run]
  /\ emitted'.stopped = None
  /\ emitted'.started = run
  /\ run.kind = slot

SlotEnds(slot) ==
  /\ OpenRuns[slot] # None
  /\ OpenRuns' = [OpenRuns EXCEPT ![slot] = None]
  /\ emitted'.stopped # None
  /\ emitted'.stopped.run = OpenRuns[slot]
  /\ emitted'.started = None

SlotReplaced(slot, run) ==
  /\ OpenRuns[slot] # None
  /\ slot = "encounter" => OpenRuns["dungeon"] = None
  /\ OpenRuns' = [OpenRuns EXCEPT ![slot] = run]
  /\ emitted'.stopped # None
  /\ emitted'.stopped.run = OpenRuns[slot]
  /\ emitted'.started = run

SlotsQuiet ==
  /\ OpenRuns' = OpenRuns
  /\ emitted'.stopped = None
  /\ emitted'.started = None

\* The four things a step may do to a slot.
SlotsStep ==
  \/ SlotsQuiet
  \/ \E slot \in Kinds :
       \/ SlotEnds(slot)
       \/ \E run \in Runs : SlotBegins(slot, run) \/ SlotReplaced(slot, run)

\* A slot in use holds a run of its kind.
LEMMA OpenRunsType ==
  ASSUME IInv
  PROVE  \A slot \in Kinds : OpenRuns[slot] # None =>
           OpenRuns[slot] \in Runs /\ OpenRuns[slot].kind = slot
<1>1. active => current \in Encounters
  BY DEF IInv, TypeOK, OverrunHasJudgedRun
<1>2. dungeonActive => currentDungeon \in Dungeons
  BY DEF IInv, TypeOK, OverrunHasJudgedRun
<1> QED
  BY <1>1, <1>2, RunKinds DEF OpenRuns, Kinds

\* ENCOUNTER_START fills, empties or refills the encounter's slot.
LEMMA EncounterStartSlots ==
  ASSUME IInv, NEW l \in EncounterStartLines, HandleEncounterStart(l)
  PROVE  emitted' \in Emissions /\ SlotsStep
<1> DEFINE stopped == IF active THEN Stopped(current, pending') ELSE None
           started == IF TrackedEncounter(l) THEN EncounterOf(l) ELSE None
<1>1. /\ emitted' \in Emissions
      /\ emitted'.stopped = stopped
      /\ EncounterOf(l) \in Encounters
      /\ pending' \in Endings
      /\ active => current \in Encounters
  BY EncounterStartEmits
<1>2. emitted'.started = started
  BY DEF HandleEncounterStart, Emit, NoEmission
<1>3. active => stopped # None /\ stopped.run = current
  BY <1>1, StoppedType, RunKinds
<1>4. /\ ~dungeonActive /\ ~dungeonActive'
      /\ active' = TrackedEncounter(l)
      /\ TrackedEncounter(l) => current' = EncounterOf(l)
  BY DEF HandleEncounterStart, AcceptsEncounterStart, dungeonVars
<1>5. active => current # None
  BY <1>1, RunKinds
<1>6. EncounterOf(l) \in Runs /\ EncounterOf(l).kind = "encounter"
  BY <1>1, RunKinds
<1> HIDE DEF stopped
<1>7. CASE active /\ TrackedEncounter(l)
  BY <1>1, <1>2, <1>3, <1>4, <1>5, <1>6, <1>7 DEF SlotsStep, SlotReplaced, OpenRuns, Kinds
<1>8. CASE active /\ ~TrackedEncounter(l)
  BY <1>1, <1>2, <1>3, <1>4, <1>5, <1>8 DEF SlotsStep, SlotEnds, OpenRuns, Kinds
<1>9. CASE ~active /\ TrackedEncounter(l)
  BY <1>1, <1>2, <1>4, <1>6, <1>9 DEF SlotsStep, SlotBegins, OpenRuns, Kinds, stopped
<1>10. CASE ~active /\ ~TrackedEncounter(l)
  BY <1>1, <1>2, <1>4, <1>10 DEF SlotsStep, SlotsQuiet, OpenRuns, stopped
<1> QED
  BY <1>7, <1>8, <1>9, <1>10

\* CHALLENGE_MODE_START does the same to the dungeon's.
LEMMA ChallengeModeStartSlots ==
  ASSUME IInv, NEW l \in ChallengeModeStartLines, HandleChallengeModeStart(l)
  PROVE  emitted' \in Emissions /\ SlotsStep
<1> DEFINE stopped == IF dungeonActive THEN Stopped(currentDungeon, pendingDungeon) ELSE None
           started == IF TrackedDungeon(l) THEN DungeonOf(l) ELSE None
<1>1. /\ emitted' \in Emissions
      /\ emitted'.stopped = stopped
      /\ DungeonOf(l) \in Dungeons
      /\ pendingDungeon \in Endings
      /\ dungeonActive => currentDungeon \in Dungeons
  BY ChallengeModeStartEmits
<1>2. emitted'.started = started
  BY DEF HandleChallengeModeStart, Emit, NoEmission
<1>3. dungeonActive => stopped # None /\ stopped.run = currentDungeon
  BY <1>1, StoppedType, RunKinds
<1>4. /\ active' = active /\ current' = current
      /\ dungeonActive' = TrackedDungeon(l)
      /\ TrackedDungeon(l) => currentDungeon' = DungeonOf(l)
  BY DEF HandleChallengeModeStart, encounterVars
<1>5. dungeonActive => currentDungeon # None
  BY <1>1, RunKinds
<1>6. DungeonOf(l) \in Runs /\ DungeonOf(l).kind = "dungeon"
  BY <1>1, RunKinds
<1> HIDE DEF stopped
<1>7. CASE dungeonActive /\ TrackedDungeon(l)
  BY <1>1, <1>2, <1>3, <1>4, <1>5, <1>6, <1>7 DEF SlotsStep, SlotReplaced, OpenRuns, Kinds
<1>8. CASE dungeonActive /\ ~TrackedDungeon(l)
  BY <1>1, <1>2, <1>3, <1>4, <1>5, <1>8 DEF SlotsStep, SlotEnds, OpenRuns, Kinds
<1>9. CASE ~dungeonActive /\ TrackedDungeon(l)
  BY <1>1, <1>2, <1>4, <1>6, <1>9 DEF SlotsStep, SlotBegins, OpenRuns, Kinds, stopped
<1>10. CASE ~dungeonActive /\ ~TrackedDungeon(l)
  BY <1>1, <1>2, <1>4, <1>10 DEF SlotsStep, SlotsQuiet, OpenRuns, stopped
<1> QED
  BY <1>7, <1>8, <1>9, <1>10

\* A timeout empties its slot.
LEMMA TimeoutSlots ==
  ASSUME IInv, OnOverrunElapsed \/ OnDungeonOverrunElapsed
  PROVE  emitted' \in Emissions /\ SlotsStep
<1>1. CASE OnOverrunElapsed
  <2>1. /\ active /\ current \in Encounters /\ pending \in Endings
        /\ emitted' \in Emissions
        /\ emitted'.stopped = Stopped(current, pending)
    BY <1>1, OverrunElapsedEmits
  <2>2. /\ emitted'.started = None
        /\ ~active' /\ dungeonActive' = dungeonActive /\ currentDungeon' = currentDungeon
    BY <1>1 DEF OnOverrunElapsed, Emit, NoEmission, dungeonVars
  <2>3. emitted'.stopped # None /\ emitted'.stopped.run = current /\ current # None
    BY <2>1, StoppedType, RunKinds
  <2> QED
    BY <2>1, <2>2, <2>3 DEF SlotsStep, SlotEnds, OpenRuns, Kinds
<1>2. CASE OnDungeonOverrunElapsed
  <2>1. /\ dungeonActive /\ currentDungeon \in Dungeons /\ pendingDungeon \in Endings
        /\ emitted' \in Emissions
        /\ emitted'.stopped = Stopped(currentDungeon, pendingDungeon)
    BY <1>2, DungeonOverrunElapsedEmits
  <2>2. /\ emitted'.started = None
        /\ ~dungeonActive' /\ active' = active /\ current' = current
    BY <1>2 DEF OnDungeonOverrunElapsed, Emit, NoEmission, encounterVars
  <2>3. /\ emitted'.stopped # None
        /\ emitted'.stopped.run = currentDungeon
        /\ currentDungeon # None
    BY <2>1, StoppedType, RunKinds
  <2> QED
    BY <2>1, <2>2, <2>3 DEF SlotsStep, SlotEnds, OpenRuns, Kinds
<1> QED
  BY <1>1, <1>2

\* END lines, and every other line, leave the slots alone.
LEMMA OtherLineSlots ==
  ASSUME IInv,
         \/ \E l \in EncounterEndLines : HandleEncounterEnd(l)
         \/ \E l \in ChallengeModeEndLines : HandleChallengeModeEnd(l)
         \/ \E l \in MapChangeLines : HandleMapChange(l)
         \/ \E l \in ZoneChangeLines : HandleZoneChange(l)
         \/ IgnoreLine
  PROVE  SlotsStep
<1>1. emitted'.stopped = None /\ emitted'.started = None
  BY DEF HandleEncounterEnd, HandleChallengeModeEnd, HandleMapChange, HandleZoneChange,
         IgnoreLine, Emit, NoEmission
<1>2. UNCHANGED <<active, current, dungeonActive, currentDungeon>>
  BY DEF HandleEncounterEnd, HandleChallengeModeEnd, HandleMapChange, HandleZoneChange,
         IgnoreLine, encounterVars, dungeonVars
<1> QED
  BY <1>1, <1>2 DEF SlotsStep, SlotsQuiet, OpenRuns

\* So every step of the tracker is one of the four.
LEMMA TrackerSlots ==
  ASSUME IInv, Next
  PROVE  emitted' \in Emissions /\ SlotsStep
<1>1. emitted' \in Emissions
  BY NextIInv DEF IInv, TypeOK
<1>2. CASE \E l \in EncounterStartLines : HandleEncounterStart(l)
  BY <1>2, EncounterStartSlots
<1>3. CASE \E l \in ChallengeModeStartLines : HandleChallengeModeStart(l)
  BY <1>3, ChallengeModeStartSlots
<1>4. CASE OnOverrunElapsed \/ OnDungeonOverrunElapsed
  BY <1>4, TimeoutSlots
<1>5. CASE \/ \E l \in EncounterEndLines : HandleEncounterEnd(l)
           \/ \E l \in ChallengeModeEndLines : HandleChallengeModeEnd(l)
           \/ \E l \in MapChangeLines : HandleMapChange(l)
           \/ \E l \in ZoneChangeLines : HandleZoneChange(l)
           \/ IgnoreLine
  BY <1>1, <1>5, OtherLineSlots
<1> QED
  BY <1>2, <1>3, <1>4, <1>5 DEF Next, OnLineReceived

-----------------------------------------------------------------------------
(* The inductive invariant and the refinement. *)

\* What is published is tracked only because the tracker starts an encounter
\* with both slots empty, so the invariant needs the tracker's; and the slots
\* empty the property with the object only because the two agree (Announced).
ObserverInv ==
  /\ IInv
  /\ IsPublished(published)
  /\ Announced(published)
  /\ PresenceCurrent(published)
  /\ published.activity \in Runs \cup {None}
  /\ PublishedRunIsTracked

\* PublishedRunIsTracked in terms of the slots, of this state and the next.
ShownIsOpen == published.activity # None => \E slot \in Kinds : published.activity = OpenRuns[slot]

\* The two say the same, now and after the step.
LEMMA TrackedIsOpen ==
  /\ PublishedRunIsTracked <=> ShownIsOpen
  /\ PublishedRunIsTracked' <=> ShownIsOpen'
BY DEF PublishedRunIsTracked, ShownIsOpen, OpenRuns, Kinds

\* Initially nothing is shown, and nothing is in progress.
LEMMA ObserverInitInv == ObserverInit => ObserverInv /\ Published!Init
<1> SUFFICES ASSUME ObserverInit PROVE ObserverInv /\ Published!Init
  OBVIOUS
<1>1. IInv
  BY InitIInv DEF ObserverInit
<1>2. /\ IsPublished(published)
      /\ Announced(published)
      /\ PresenceCurrent(published)
      /\ published.activity = None
      /\ published.ended = None
  BY DEF ObserverInit, IsPublished, Members, Announced, PresenceCurrent
<1>3. ObserverInv
  BY <1>1, <1>2 DEF ObserverInv, PublishedRunIsTracked
<1>4. OpenRuns = [slot \in Published!Slots |-> None]
  BY DEF ObserverInit, Init, OpenRuns, Published!Slots
<1> QED
  BY <1>2, <1>3, <1>4 DEF Published!Init

\* What one step shows: what the slots made of the signals of the tracker.
LEMMA PublishEffect ==
  ASSUME ObserverInv, ObserverNext
  PROVE  /\ IInv'
         /\ SlotsStep
         /\ IsPublished(published')
         /\ Announced(published')
         /\ PresenceCurrent(published')
         /\ published'.activity = IF emitted'.started # None THEN emitted'.started
                                  ELSE IF emitted'.stopped # None THEN None
                                  ELSE published.activity
         /\ published'.ended = IF emitted'.stopped = None THEN published.ended
                               ELSE emitted'.stopped.run
<1> DEFINE p == [published EXCEPT !.signals = <<>>]
<1>1. IInv' /\ emitted' \in Emissions /\ SlotsStep
  BY NextIInv, TrackerSlots DEF ObserverInv, ObserverNext
<1>2. /\ IsPublished(p)
      /\ p.activity = published.activity /\ p.ended = published.ended
      /\ p.live = published.live /\ p.announced = published.announced
      /\ p.location = published.location /\ p.presence = published.presence
  BY DEF ObserverInv, IsPublished, Members
<1>3. published' = React(p, emitted')
  BY DEF ObserverNext, Publish
<1> HIDE DEF p
<1>4. Announced(p) /\ PresenceCurrent(p) /\ p.activity \in Runs \cup {None}
  BY <1>2 DEF ObserverInv, Announced, PresenceCurrent
<1>5. ASSUME emitted'.started # None, emitted'.stopped = None, p.activity # None
      PROVE  p.activity.kind # emitted'.started.kind
  <2>1. PICK slot \in Kinds, run \in Runs : SlotBegins(slot, run)
    BY <1>1, <1>5 DEF SlotsStep, SlotsQuiet, SlotEnds, SlotReplaced
  <2>2. PICK other \in Kinds : p.activity = OpenRuns[other]
    BY <1>2, <1>5, TrackedIsOpen DEF ObserverInv, ShownIsOpen
  <2>3. OpenRuns[other].kind = other /\ other # slot
    BY <1>5, <2>1, <2>2, OpenRunsType DEF ObserverInv, SlotBegins
  <2> QED
    BY <2>1, <2>2, <2>3 DEF SlotBegins
<1>6. LET q == React(p, emitted') IN
      /\ IsPublished(q)
      /\ q.activity = IF emitted'.started # None THEN emitted'.started
                      ELSE IF emitted'.stopped # None THEN None ELSE p.activity
      /\ q.ended = IF emitted'.stopped = None THEN p.ended ELSE emitted'.stopped.run
      /\ Announced(q)
      /\ PresenceCurrent(p) => PresenceCurrent(q)
  BY <1>1, <1>2, <1>4, <1>5, ReactEffect
<1> QED
  BY <1>1, <1>2, <1>3, <1>4, <1>6

\* A step shows a client a step of PublishedActivity, or nothing.
LEMMA ObserverStep ==
  ASSUME ObserverInv, ObserverNext
  PROVE  ObserverInv' /\ [Published!Next]_(Published!vars)
<1> USE PublishEffect
<1>1. DOMAIN OpenRuns = Kinds /\ Published!Slots = Kinds
  BY DEF OpenRuns, Kinds, Published!Slots
<1>2. CASE SlotsQuiet
  <2>1. UNCHANGED <<OpenRuns, published.activity, published.ended>>
    BY <1>2 DEF SlotsQuiet
  <2>2. ShownIsOpen'
    BY <2>1, TrackedIsOpen DEF ObserverInv, ShownIsOpen
  <2>3. ObserverInv'
    BY <2>1, <2>2, TrackedIsOpen DEF ObserverInv
  <2> QED
    BY <2>1, <2>3 DEF Published!vars
<1>3. CASE \E slot \in Kinds : SlotEnds(slot)
  <2>1. PICK slot \in Kinds : SlotEnds(slot)
    BY <1>3
  <2>2. published'.activity = None /\ published'.ended = OpenRuns[slot]
    BY <2>1 DEF SlotEnds
  <2>3. ObserverInv'
    BY <2>2, TrackedIsOpen DEF ObserverInv, ShownIsOpen
  <2>4. Published!End(slot)
    BY <2>1, <2>2 DEF SlotEnds, Published!End
  <2> QED
    BY <1>1, <2>3, <2>4 DEF Published!Next
<1>4. CASE \E slot \in Kinds, run \in Runs : SlotBegins(slot, run)
  <2>1. PICK slot \in Kinds, run \in Runs : SlotBegins(slot, run)
    BY <1>4
  <2>2. run # None
    BY NoneAssumption
  <2>3. published'.activity = run /\ published'.ended = published.ended
    BY <2>1, <2>2 DEF SlotBegins
  <2>4. OpenRuns'[slot] = run
    BY <1>1, <2>1 DEF SlotBegins
  <2>5. ObserverInv'
    BY <2>3, <2>4, TrackedIsOpen DEF ObserverInv, ShownIsOpen
  <2>6. Published!Begin(slot, run)
    BY <2>1, <2>3 DEF SlotBegins, Published!Begin
  <2> QED
    BY <1>1, <2>5, <2>6 DEF Published!Next
<1>5. CASE \E slot \in Kinds, run \in Runs : SlotReplaced(slot, run)
  <2>1. PICK slot \in Kinds, run \in Runs : SlotReplaced(slot, run)
    BY <1>5
  <2>2. run # None
    BY NoneAssumption
  <2>3. published'.activity = run /\ published'.ended = OpenRuns[slot]
    BY <2>1, <2>2 DEF SlotReplaced
  <2>4. OpenRuns'[slot] = run
    BY <1>1, <2>1 DEF SlotReplaced
  <2>5. ObserverInv'
    BY <2>3, <2>4, TrackedIsOpen DEF ObserverInv, ShownIsOpen
  <2>6. Published!Replace(slot, run)
    BY <2>1, <2>3 DEF SlotReplaced, Published!Replace
  <2> QED
    BY <1>1, <2>5, <2>6 DEF Published!Next
<1> QED
  BY <1>2, <1>3, <1>4, <1>5 DEF SlotsStep

\* Nor does a step that changes nothing.
LEMMA ObserverStutter ==
  ASSUME ObserverInv, UNCHANGED observerVars
  PROVE  ObserverInv' /\ UNCHANGED Published!vars
<1>1. UNCHANGED trackerVars /\ UNCHANGED published
  BY DEF observerVars
<1>2. IInv'
  BY <1>1, NextIInv DEF ObserverInv
<1>3. OpenRuns' = OpenRuns
  BY <1>1 DEF trackerVars, encounterVars, dungeonVars, OpenRuns
<1>4. ShownIsOpen'
  BY <1>1, <1>3, TrackedIsOpen DEF ObserverInv, ShownIsOpen
<1> QED
  BY <1>1, <1>2, <1>3, <1>4, TrackedIsOpen DEF ObserverInv, IsPublished, Announced, PresenceCurrent,
     Published!vars

\* The invariant holds in every reachable state.
LEMMA ObserverInvariant == ObserverSpec => []ObserverInv
<1>1. ObserverInv /\ [ObserverNext]_observerVars => ObserverInv'
  BY ObserverStep, ObserverStutter
<1> QED
  BY <1>1, ObserverInitInv, PTL DEF ObserverSpec

\* Whatever the log holds and whenever the timers fire, nothing is published
\* that the tracker has stopped: m_activity of GameState never outlives a run.
THEOREM PublishedIsTracked == ObserverSpec => []PublishedRunIsTracked
<1>1. ObserverInv => PublishedRunIsTracked
  BY DEF ObserverInv
<1> QED
  BY <1>1, ObserverInvariant, PTL

\* The activity object exists for ObjectManager clients exactly while the
\* Activity property is set.
THEOREM ObjectLifetime == ObserverSpec => []ObjectExistsWhilePublished
<1>1. ObserverInv => ObjectExistsWhilePublished
  BY DEF ObserverInv, Announced, ObjectExistsWhilePublished
<1> QED
  BY <1>1, ObserverInvariant, PTL

\* Discord was last handed the presence of the state as it is.
THEOREM PresenceFollows == ObserverSpec => []PresenceIsCurrent
<1>1. ObserverInv => PresenceIsCurrent
  BY DEF ObserverInv, PresenceCurrent, PresenceIsCurrent
<1> QED
  BY <1>1, ObserverInvariant, PTL

\* The tracker, GameState and the publishers implement PublishedActivity: each
\* run that begins is shown, each that ends is reported as itself.
THEOREM ObserverRefinement == ObserverSpec => ShowsRuns
<1>1. ObserverInit => Published!Init
  BY ObserverInitInv
<1>2. ObserverInv /\ [ObserverNext]_observerVars => [Published!Next]_(Published!vars)
  BY ObserverStep, ObserverStutter
<1> QED
  BY <1>1, <1>2, ObserverInvariant, PTL DEF ObserverSpec, ShowsRuns, Published!Spec

\* No keystone starts while an encounter is in progress, or in its overrun.
OneRunAtATime == ~(active /\ dungeonActive)

\* A run in progress is the one published.
OpenIsShown ==
  /\ active => published.activity = current
  /\ dungeonActive => published.activity = currentDungeon

\* While the slots are used one at a time, a step leaves an open run shown.
LEMMA OpenStaysShown ==
  ASSUME ObserverInv, ObserverInv', OneRunAtATime, OneRunAtATime', OpenIsShown,
         [Published!Next]_(Published!vars)
  PROVE  OpenIsShown'
<1> DEFINE Shown == \A slot \in Kinds : OpenRuns[slot] # None => published.activity = OpenRuns[slot]
           Single == OpenRuns["encounter"] = None \/ OpenRuns["dungeon"] = None
<1>1. /\ Published!Slots = Kinds
      /\ Kinds = {"encounter", "dungeon"}
  BY DEF Kinds, Published!Slots
<1>2. Shown /\ Single /\ Single'
  BY DEF OpenIsShown, OneRunAtATime, OpenRuns, Kinds
<1>3. DOMAIN OpenRuns = Kinds
  BY DEF OpenRuns, Kinds
<1>4. Shown'
  <2>1. ASSUME NEW slot \in Kinds, Published!End(slot) PROVE Shown'
    <3>1. /\ OpenRuns[slot] # None
          /\ \A s \in Kinds : OpenRuns'[s] = IF s = slot THEN None ELSE OpenRuns[s]
      BY <1>3, <2>1 DEF Published!End
    <3>2. \A s \in Kinds \ {slot} : OpenRuns[s] = None
      BY <1>1, <1>2, <3>1
    <3> HIDE DEF Kinds
    <3> QED
      BY <3>1, <3>2
  <2>2. ASSUME NEW slot \in Kinds, NEW r \in Runs,
               Published!Begin(slot, r) \/ Published!Replace(slot, r)
        PROVE  Shown'
    <3>1. /\ published'.activity = r
          /\ OpenRuns' = [OpenRuns EXCEPT ![slot] = r]
      BY <2>2 DEF Published!Begin, Published!Replace
    <3>2. OpenRuns'[slot] = r /\ r # None
      BY <1>3, <3>1, NoneAssumption
    <3>3. \A s \in Kinds \ {slot} : OpenRuns'[s] = None
      BY <1>1, <1>2, <3>2
    <3> QED
      BY <3>1, <3>2, <3>3
  <2>3. CASE Published!Forget
    BY <1>1, <2>3 DEF Published!Forget
  <2>4. CASE UNCHANGED Published!vars
    BY <1>2, <2>4 DEF Published!vars
  <2> QED
    BY <1>1, <2>1, <2>2, <2>3, <2>4 DEF Published!Next
<1>5. /\ active' => current' # None
      /\ dungeonActive' => currentDungeon' # None
  BY DEF ObserverInv, IInv, OverrunHasJudgedRun
<1> QED
  BY <1>4, <1>5 DEF OpenIsShown, OpenRuns, Kinds

\* How far a lost dungeon goes: while no encounter is in progress together with
\* a dungeon, a dungeon in progress is what the Activity property shows.
THEOREM LoneDungeonIsPublished ==
  ObserverSpec /\ []OneRunAtATime => []LiveDungeonIsPublished
<1>1. ObserverInit => OpenIsShown
  BY DEF ObserverInit, Init, OpenIsShown
<1>2. /\ ObserverInv /\ ObserverInv' /\ OneRunAtATime /\ OneRunAtATime' /\ OpenIsShown
      /\ [ObserverNext]_observerVars
      => OpenIsShown'
  BY ObserverStep, ObserverStutter, OpenStaysShown
<1>3. OpenIsShown => LiveDungeonIsPublished
  BY DEF OpenIsShown, LiveDungeonIsPublished
<1> QED
  BY <1>1, <1>2, <1>3, ObserverInvariant, PTL DEF ObserverSpec

\* In every step a client is told how an activity ended before its object
\* goes, and of the next object last.
THEOREM EndComesFirst == ObserverSpec => []EndPrecedesRemoval
<1>1. ObserverInit => EndPrecedesRemoval
  BY DEF ObserverInit, EndPrecedesRemoval
<1>2. ObserverInv /\ EndPrecedesRemoval /\ [ObserverNext]_observerVars => EndPrecedesRemoval'
  <2>1. CASE UNCHANGED observerVars
    BY <2>1 DEF observerVars, EndPrecedesRemoval
  <2>2. ASSUME ObserverInv, ObserverNext
        PROVE  EndPrecedesRemoval'
    <3> DEFINE p == [published EXCEPT !.signals = <<>>]
    <3>1. Before(p)
      <4>1. IsPublished(p) /\ p.signals = <<>>
        BY <2>2 DEF ObserverInv, IsPublished, Members
      <4>2. <<>> \in Seq({})
        OBVIOUS
      <4>3. InOrder(<<>>) /\ ~Has(<<>>, "InterfacesAdded")
        BY DEF InOrder, Has
      <4> QED
        BY <4>1, <4>2, <4>3 DEF Before, SentInOrder, IsSignals
    <3>2. published' = React(p, emitted')
      BY <2>2 DEF ObserverNext, Publish
    <3> HIDE DEF p
    <3>3. SentInOrder(published')
      BY <3>1, <3>2, ReactOrder
    <3>4. PICK S : published'.signals \in Seq(S)
      BY <3>3 DEF SentInOrder, IsSignals
    <3>5. DOMAIN published'.signals = 1 .. Len(published'.signals)
      BY <3>4
    <3> QED
      BY <3>3, <3>5 DEF SentInOrder, InOrder, EndPrecedesRemoval
  <2> QED
    BY <2>1, <2>2
<1> QED
  BY <1>1, <1>2, ObserverInvariant, PTL DEF ObserverSpec

-----------------------------------------------------------------------------
(* The fold of a client. *)

\* The views a client runs through, a signal at a time.
ViewsOf(h, m, s) ==
  /\ h[0] = m
  /\ \A k \in 1 .. Len(s) : h[k] = Observe(h[k - 1], s[k])

\* The fold runs through them and ends in the last.
LEMMA ObserveRuns ==
  ASSUME NEW m, NEW S, NEW s \in Seq(S)
  PROVE  \E h : ViewsOf(h, m, s) /\ h[Len(s)] = FoldLeft(Observe, m, s)
<1> DEFINE n == Len(s)
           Runs0(it, k) == it = [t \in SUBSET (1 .. k) |->
                            IF t = {} THEN m ELSE Observe(it[t \ {Max(t)}], s[Max(t)])]
           T == {k \in 0 .. n : \E it : Runs0(it, k)}
           run == CHOOSE it : Runs0(it, n)
           h == [k \in 0 .. n |-> run[1 .. k]]
<1>1. n \in Nat /\ DOMAIN s = 1 .. n
  OBVIOUS
<1>2. FoldLeft(Observe, m, s) = run[DOMAIN s]
  BY <1>1, Zenon DEF FoldLeft, MapThenFoldSet
<1>3. 0 \in T
  <2> DEFINE it == [t \in SUBSET (1 .. 0) |-> m]
  <2>1. \A t \in SUBSET (1 .. 0) : t = {}
    OBVIOUS
  <2>2. Runs0(it, 0)
    BY <2>1
  <2> HIDE DEF Runs0
  <2> QED
    BY <1>1, <2>2
<1>4. ASSUME NEW k \in 1 .. n, k - 1 \in T
      PROVE  k \in T
  <2>1. PICK it : Runs0(it, k - 1)
    BY <1>4
  <2> DEFINE new == [t \in SUBSET (1 .. k) |->
                       IF k \in t THEN Observe(it[t \ {k}], s[k]) ELSE it[t]]
  <2>2. \A t \in SUBSET (1 .. k) : t \ {k} \in SUBSET (1 .. k - 1)
    OBVIOUS
  <2>3. \A t \in SUBSET (1 .. k) : k \notin t => t \in SUBSET (1 .. k - 1)
    OBVIOUS
  <2>4. ASSUME NEW t \in SUBSET (1 .. k)
        PROVE  new[t] = IF t = {} THEN m ELSE Observe(new[t \ {Max(t)}], s[Max(t)])
    <3>1. CASE k \in t
      <4>1. Max(t) = k
        BY <3>1, MaxIs
      <4>2. new[t] = Observe(it[t \ {k}], s[k])
        BY <3>1
      <4>3. new[t \ {k}] = it[t \ {k}]
        OBVIOUS
      <4> HIDE DEF new
      <4> QED
        BY <3>1, <4>1, <4>2, <4>3
    <3>2. CASE k \notin t
      <4>1. new[t] = it[t] /\ new[t \ {Max(t)}] = it[t \ {Max(t)}]
        BY <3>2
      <4>2. it[t] = IF t = {} THEN m ELSE Observe(it[t \ {Max(t)}], s[Max(t)])
        BY <2>1, <2>3, <3>2
      <4> HIDE DEF new
      <4> QED
        BY <4>1, <4>2
    <3> QED
      BY <3>1, <3>2
  <2>5. Runs0(new, k)
    BY <2>4
  <2> HIDE DEF Runs0, new
  <2> QED
    BY <1>1, <2>5
<1>5. n \in T
  <2>1. 0 .. n \subseteq T
    <3> HIDE DEF T
    <3> QED
      BY <1>1, <1>3, <1>4, Induction
  <2>2. n \in 0 .. n
    BY <1>1
  <2> HIDE DEF T, n
  <2> QED
    BY <2>1, <2>2
<1>6. Runs0(run, n)
  <2> HIDE DEF Runs0
  <2> QED
    BY <1>5
<1>7. h[0] = m
  <2>1. 1 .. 0 = {} /\ {} \in SUBSET (1 .. n)
    OBVIOUS
  <2>2. run[{}] = m
    BY <1>6, <2>1
  <2> HIDE DEF run
  <2> QED
    BY <1>1, <2>1, <2>2
<1>8. ASSUME NEW k \in 1 .. n
      PROVE  h[k] = Observe(h[k - 1], s[k])
  <2>1. /\ 1 .. k \in SUBSET (1 .. n) /\ k \in 1 .. k
        /\ (1 .. k) \ {k} = 1 .. k - 1 /\ k \in 0 .. n /\ k - 1 \in 0 .. n /\ k \in Nat
    BY <1>1
  <2>2. Max(1 .. k) = k
    BY <2>1, MaxIs
  <2>3. run[1 .. k] = Observe(run[(1 .. k) \ {Max(1 .. k)}], s[Max(1 .. k)])
    BY <1>6, <2>1
  <2> HIDE DEF n, run
  <2> QED
    BY <2>1, <2>2, <2>3
<1>9. h[n] = FoldLeft(Observe, m, s)
  BY <1>1, <1>2
<1> HIDE DEF h
<1> QED
  BY <1>7, <1>8, <1>9 DEF ViewsOf

\* Without a signal the view stays.
LEMMA ObserveNothing ==
  ASSUME NEW m
  PROVE  FoldLeft(Observe, m, <<>>) = m
<1>1. <<>> \in Seq({}) /\ Len(<<>>) = 0
  OBVIOUS
<1>2. PICK h : ViewsOf(h, m, <<>>) /\ h[0] = FoldLeft(Observe, m, <<>>)
  BY <1>1, ObserveRuns
<1> QED
  BY <1>2 DEF ViewsOf

\* A client that has seen one more signal has observed it last.
LEMMA ObserveOneMore ==
  ASSUME NEW m, NEW S, NEW s \in Seq(S), NEW x
  PROVE  FoldLeft(Observe, m, Append(s, x)) = Observe(FoldLeft(Observe, m, s), x)
<1> DEFINE t == Append(s, x)
           n == Len(s)
<1>1. s \in Seq(S \cup {x})
  OBVIOUS
<1>2. /\ t \in Seq(S \cup {x}) /\ n \in Nat /\ Len(t) = n + 1
      /\ \A i \in 1 .. n : t[i] = s[i]
      /\ t[n + 1] = x
  BY <1>1
<1>3. PICK a : ViewsOf(a, m, s) /\ a[n] = FoldLeft(Observe, m, s)
  BY ObserveRuns
<1>4. PICK b : ViewsOf(b, m, t) /\ b[n + 1] = FoldLeft(Observe, m, t)
  <2> HIDE DEF t
  <2> QED
    BY <1>2, ObserveRuns
<1> HIDE DEF t, n
<1> DEFINE T == {k \in 0 .. n : a[k] = b[k]}
<1>5. /\ a[0] = b[0]
      /\ \A k \in 1 .. n : a[k] = Observe(a[k - 1], s[k])
      /\ \A k \in 1 .. n + 1 : b[k] = Observe(b[k - 1], t[k])
  BY <1>2, <1>3, <1>4 DEF ViewsOf, n
<1>6. 0 \in T
  BY <1>2, <1>5
<1>7. \A k \in 1 .. n : k - 1 \in T => k \in T
  BY <1>2, <1>5
<1>8. 0 .. n \subseteq T
  <2> HIDE DEF T
  <2> QED
    BY <1>2, <1>6, <1>7, Induction
<1>9. a[n] = b[n]
  BY <1>2, <1>8
<1>10. n + 1 \in 1 .. n + 1 /\ (n + 1) - 1 = n
  BY <1>2
<1>11. b[n + 1] = Observe(b[n], t[n + 1])
  BY <1>5, <1>10
<1> QED
  BY <1>2, <1>3, <1>4, <1>9, <1>11 DEF t, n

-----------------------------------------------------------------------------
(* What a client makes of the signals. *)

\* A client whose view was m before this step has seen the signals sent so far.
Seen(m, p) == FoldLeft(Observe, m, p.signals)

IsView(v) == DOMAIN v = {"activity", "location", "object"}

IsObject(o) == o = [i \in DOMAIN o |-> o[i]]

\* A view tells the properties, and what was announced of the object.
Tells(v, p) ==
  /\ IsView(v)
  /\ v.activity = BagOf(p.activity)
  /\ v.location = toVariantMap(p.location)
  /\ IsObject(v.object)
  /\ DOMAIN v.object = p.announced

Follows(m, p) ==
  /\ IsPublished(p)
  /\ IsSignals(p.signals)
  /\ Tells(Seen(m, p), p)

\* A signal is seen after those before it.
LEMMA SeenSend ==
  ASSUME NEW m, NEW p, IsPublished(p), IsSignals(p.signals), NEW x
  PROVE  /\ Seen(m, Send(p, x)) = Observe(Seen(m, p), x)
         /\ IsSignals(Send(p, x).signals)
<1>1. Send(p, x).signals = Append(p.signals, x)
  BY DEF Send, IsPublished, Members
<1>2. PICK S : p.signals \in Seq(S)
  BY DEF IsSignals
<1>3. Append(p.signals, x) \in Seq(S \cup {x})
  BY <1>2
<1>4. IsSignals(Append(p.signals, x))
  BY <1>3 DEF IsSignals
<1>5. FoldLeft(Observe, m, Append(p.signals, x)) = Observe(FoldLeft(Observe, m, p.signals), x)
  BY <1>2, ObserveOneMore
<1> QED
  BY <1>1, <1>4, <1>5 DEF Seen

\* A property changes in the view.
LEMMA ObserveChange ==
  ASSUME NEW v, IsView(v), NEW property \in {"activity", "location"}, NEW value
  PROVE  LET w == Observe(v, PropertyChanged(property, value)) IN
         /\ IsView(w)
         /\ w[property] = value
         /\ \A other \in {"activity", "location", "object"} \ {property} : w[other] = v[other]
<1> DEFINE s == PropertyChanged(property, value)
<1>1. s.signal = "PropertiesChanged" /\ s.property = property /\ s.value = value
  BY DEF PropertyChanged
<1> HIDE DEF s
<1>2. Observe(v, s) = [v EXCEPT ![s.property] = s.value]
  BY <1>1 DEF Observe
<1> QED
  BY <1>1, <1>2 DEF IsView, s

\* An object comes into an empty view as it is announced.
LEMMA ObserveAdded ==
  ASSUME NEW v, IsView(v), IsObject(v.object), DOMAIN v.object = {}, NEW o, IsObject(o)
  PROVE  LET w == Observe(v, [signal |-> "InterfacesAdded", interfaces |-> o]) IN
         /\ IsView(w)
         /\ w.object = o
         /\ w.activity = v.activity
         /\ w.location = v.location
<1> DEFINE s == [signal |-> "InterfacesAdded", interfaces |-> o]
<1>1. s.signal = "InterfacesAdded" /\ s.interfaces = o
  OBVIOUS
<1> HIDE DEF s
<1>2. Observe(v, s) = [v EXCEPT !.object = Merged(o, v.object)]
  BY <1>1 DEF Observe, IsView
<1>3. Merged(o, v.object) = o
  <2>1. DOMAIN o \cup DOMAIN v.object = DOMAIN o
    OBVIOUS
  <2>2. Merged(o, v.object) = [i \in DOMAIN o |-> o[i]]
    BY <2>1 DEF Merged
  <2> QED
    BY <2>2 DEF IsObject
<1> QED
  BY <1>2, <1>3 DEF IsView, s

\* It leaves the view with the interfaces that were announced of it.
LEMMA ObserveRemoved ==
  ASSUME NEW v, IsView(v)
  PROVE  LET w == Observe(v, [signal |-> "InterfacesRemoved", interfaces |-> DOMAIN v.object]) IN
         /\ IsView(w)
         /\ DOMAIN w.object = {} /\ IsObject(w.object)
         /\ w.activity = v.activity
         /\ w.location = v.location
<1> DEFINE s == [signal |-> "InterfacesRemoved", interfaces |-> DOMAIN v.object]
<1>1. s.signal = "InterfacesRemoved" /\ s.interfaces = DOMAIN v.object
  OBVIOUS
<1> HIDE DEF s
<1>2. Observe(v, s) = [v EXCEPT !.object = Restrict(@, DOMAIN @ \ s.interfaces)]
  BY <1>1 DEF Observe
<1> DEFINE o == Restrict(v.object, DOMAIN v.object \ s.interfaces)
<1>3. DOMAIN o = {} /\ IsObject(o)
  BY <1>1 DEF Restrict, IsObject
<1>4. Observe(v, s) = [v EXCEPT !.object = o]
  BY <1>2 DEF IsView
<1> HIDE DEF o
<1> QED
  BY <1>3, <1>4 DEF IsView, s

\* An end alone changes nothing in it.
LEMMA ObserveEnded ==
  ASSUME NEW v, NEW s, s.signal = "ActivityEnded"
  PROVE  Observe(v, s) = v
BY DEF Observe

\* What a client has seen depends on the signals only.
LEMMA SeenSame ==
  ASSUME NEW m, NEW p, NEW q, q.signals = p.signals
  PROVE  Seen(m, q) = Seen(m, p)
BY DEF Seen

\* The view follows a new activity, and is told of its object if it had none.
LEMMA SetActivityView ==
  ASSUME NEW m, NEW p, Follows(m, p), NEW activity, ~p.live => p.announced = {}
  PROVE  LET q == setActivity(p, activity) IN
         /\ Follows(m, q)
         /\ q.location = p.location
         /\ \/ /\ q.announced = p.announced
               /\ Seen(m, q).object = Seen(m, p).object
               /\ activity = None \/ p.live \/ BagOf(p.activity) = BagOf(activity)
            \/ /\ q.announced = InterfacesOf(activity)
               /\ Seen(m, q).object = Snapshot(activity)
<1>1. CASE BagOf(p.activity) = BagOf(activity)
  BY <1>1 DEF setActivity
<1>2. CASE BagOf(p.activity) # BagOf(activity)
  <2> DEFINE a == [p EXCEPT !.activity = activity]
             s == PropertyChanged("activity", BagOf(activity))
             b == Send(a, s)
             c == [b EXCEPT !.live = TRUE, !.announced = InterfacesOf(activity)]
             added == [signal |-> "InterfacesAdded", interfaces |-> Snapshot(activity)]
             d == activityAppeared(b)
             q == updatePresence(d)
  <2>1. setActivity(p, activity) = q
    BY <1>2 DEF setActivity
  <2>2. /\ IsPublished(p) /\ IsSignals(p.signals) /\ Tells(Seen(m, p), p)
    BY DEF Follows
  <2>3. /\ IsPublished(a) /\ a.signals = p.signals /\ a.activity = activity
        /\ a.live = p.live /\ a.announced = p.announced /\ a.location = p.location
    BY <2>2 DEF IsPublished, Members
  <2> HIDE DEF a
  <2>4. /\ IsPublished(b) /\ b.activity = activity
        /\ b.live = p.live /\ b.announced = p.announced /\ b.location = p.location
    BY <2>3, SendEffect
  <2>5. Seen(m, b) = Observe(Seen(m, p), s) /\ IsSignals(b.signals)
    BY <2>2, <2>3, SeenSend, SeenSame
  <2>6. /\ IsView(Seen(m, b))
        /\ Seen(m, b).activity = BagOf(activity)
        /\ Seen(m, b).location = Seen(m, p).location
        /\ Seen(m, b).object = Seen(m, p).object
    BY <2>2, <2>5, ObserveChange DEF Tells
  <2> HIDE DEF b, s
  <2>7. Follows(m, b)
    BY <2>2, <2>4, <2>5, <2>6 DEF Follows, Tells
  <2>8. /\ Follows(m, d) /\ d.location = p.location
        /\ \/ /\ d.announced = p.announced
              /\ Seen(m, d).object = Seen(m, p).object
              /\ activity = None \/ p.live
           \/ /\ d.announced = InterfacesOf(activity)
              /\ Seen(m, d).object = Snapshot(activity)
    <3>1. CASE p.live \/ activity = None
      <4>1. d = b
        BY <2>4, <3>1 DEF activityAppeared
      <4> QED
        BY <2>4, <2>6, <2>7, <3>1, <4>1
    <3>2. CASE ~(p.live \/ activity = None)
      <4>1. d = Send(c, added)
        BY <2>4, <3>2 DEF activityAppeared
      <4>2. /\ IsPublished(c) /\ c.signals = b.signals /\ c.activity = activity
            /\ c.announced = InterfacesOf(activity) /\ c.location = p.location
        BY <2>4 DEF IsPublished, Members
      <4>3. IsObject(Snapshot(activity)) /\ DOMAIN Snapshot(activity) = InterfacesOf(activity)
        BY DEF IsObject, Snapshot
      <4>4. DOMAIN Seen(m, b).object = {} /\ IsObject(Seen(m, b).object)
        BY <2>2, <2>6, <3>2 DEF Tells
      <4> HIDE DEF c
      <4>5. /\ IsPublished(d) /\ d.activity = activity
            /\ d.announced = InterfacesOf(activity) /\ d.location = p.location
        BY <4>1, <4>2, SendEffect
      <4>6. Seen(m, d) = Observe(Seen(m, b), added) /\ IsSignals(d.signals)
        BY <2>5, <4>1, <4>2, SeenSend, SeenSame
      <4>7. /\ IsView(Seen(m, d))
            /\ Seen(m, d).activity = Seen(m, b).activity
            /\ Seen(m, d).location = Seen(m, b).location
            /\ Seen(m, d).object = Snapshot(activity)
        BY <2>6, <4>3, <4>4, <4>6, ObserveAdded
      <4> HIDE DEF d
      <4> QED
        BY <2>2, <2>6, <4>3, <4>5, <4>6, <4>7 DEF Follows, Tells
    <3> QED
      BY <3>1, <3>2
  <2> HIDE DEF d
  <2>9. /\ IsPublished(q) /\ q.signals = d.signals /\ q.activity = d.activity
        /\ q.announced = d.announced /\ q.location = d.location
    BY <2>8, PresenceEffect, PresenceOrder DEF Follows
  <2>10. Seen(m, q) = Seen(m, d)
    BY <2>9, SeenSame
  <2> HIDE DEF q
  <2> QED
    BY <2>1, <2>8, <2>9, <2>10 DEF Follows, Tells
<1> QED
  BY <1>1, <1>2

\* Whatever object a client knows of is gone with the activity.
LEMMA EndActivityView ==
  ASSUME NEW m, NEW p, Follows(m, p), Announced(p), NEW stopped
  PROVE  LET q == endActivity(p, stopped) IN
         /\ Follows(m, q)
         /\ q.location = p.location
         /\ q.announced = {}
<1> DEFINE r == [p EXCEPT !.ended = stopped.run]
           s == [signal |-> "ActivityEnded", activity |-> EndedBagOf(stopped)]
           t == EndReported(p, stopped)
           gone == [signal |-> "InterfacesRemoved", interfaces |-> t.announced]
           x == Send(t, gone)
           u == activityDisappeared(t)
<1>1. /\ IsPublished(p) /\ IsSignals(p.signals) /\ Tells(Seen(m, p), p)
  BY DEF Follows
<1>2. /\ IsPublished(r) /\ r.signals = p.signals /\ r.activity = p.activity
      /\ r.live = p.live /\ r.announced = p.announced /\ r.location = p.location
  BY <1>1 DEF IsPublished, Members
<1>3. t = Send(r, s)
  BY DEF EndReported
<1>4. s.signal = "ActivityEnded"
  OBVIOUS
<1> HIDE DEF r, s
<1>5. /\ IsPublished(t) /\ t.activity = p.activity
      /\ t.live = p.live /\ t.announced = p.announced /\ t.location = p.location
  BY <1>2, <1>3, SendEffect
<1>6. Seen(m, t) = Seen(m, p) /\ IsSignals(t.signals)
  <2>1. Seen(m, t) = Observe(Seen(m, p), s) /\ IsSignals(t.signals)
    BY <1>1, <1>2, <1>3, SeenSend, SeenSame
  <2> QED
    BY <1>4, <2>1, ObserveEnded
<1> HIDE DEF t
<1>7. Follows(m, t)
  BY <1>1, <1>5, <1>6 DEF Follows, Tells
<1>8. /\ Follows(m, u) /\ u.location = p.location /\ u.announced = {} /\ u.live = FALSE
  <2>1. CASE ~p.live
    BY <1>5, <1>7, <2>1 DEF activityDisappeared, Announced
  <2>2. CASE p.live
    <3>1. u = [x EXCEPT !.live = FALSE, !.announced = {}]
      BY <1>5, <2>2 DEF activityDisappeared, Announced
    <3>2. /\ IsPublished(x) /\ x.activity = p.activity /\ x.location = p.location
      BY <1>5, SendEffect
    <3>3. Seen(m, x) = Observe(Seen(m, t), gone) /\ IsSignals(x.signals)
      BY <1>5, <1>6, SeenSend
    <3>4. IsView(Seen(m, t)) /\ DOMAIN Seen(m, t).object = t.announced
      BY <1>7 DEF Follows, Tells
    <3>5. /\ IsView(Seen(m, x))
          /\ DOMAIN Seen(m, x).object = {} /\ IsObject(Seen(m, x).object)
          /\ Seen(m, x).activity = Seen(m, t).activity
          /\ Seen(m, x).location = Seen(m, t).location
      BY <3>3, <3>4, ObserveRemoved
    <3> HIDE DEF x
    <3>6. /\ IsPublished(u) /\ u.signals = x.signals /\ u.activity = x.activity
          /\ u.location = x.location /\ u.announced = {} /\ u.live = FALSE
      BY <3>1, <3>2 DEF IsPublished, Members
    <3>7. Seen(m, u) = Seen(m, x)
      BY <3>6, SeenSame
    <3> HIDE DEF u
    <3> QED
      BY <1>1, <1>6, <3>2, <3>3, <3>5, <3>6, <3>7 DEF Follows, Tells
  <2> QED
    BY <2>1, <2>2 DEF Announced
<1>9. endActivity(p, stopped) = setActivity(u, None)
  BY DEF endActivity, t, u
<1> HIDE DEF u
<1>10. InterfacesOf(None) = {}
  BY DEF InterfacesOf
<1> QED
  BY <1>8, <1>9, <1>10, SetActivityView

\* The view follows the location, and the object has no part in it.
LEMMA SetLocationView ==
  ASSUME NEW m, NEW p, Follows(m, p), NEW location
  PROVE  LET q == setLocation(p, location) IN
         /\ Follows(m, q)
         /\ q.location = location
         /\ q.announced = p.announced
         /\ Seen(m, q).object = Seen(m, p).object
<1> DEFINE r == [p EXCEPT !.location = location]
           s == PropertyChanged("location", toVariantMap(location))
           t == Send(r, s)
           q == updatePresence(t)
<1>1. IsPublished(p) /\ IsSignals(p.signals) /\ Tells(Seen(m, p), p)
  BY DEF Follows
<1>2. /\ IsPublished(r) /\ r.signals = p.signals /\ r.activity = p.activity
      /\ r.announced = p.announced /\ r.location = location
  BY <1>1 DEF IsPublished, Members
<1>3. \/ setLocation(p, location) = r /\ toVariantMap(p.location) = toVariantMap(location)
      \/ setLocation(p, location) = q
  BY DEF setLocation
<1> HIDE DEF r
<1>4. CASE setLocation(p, location) = r /\ toVariantMap(p.location) = toVariantMap(location)
  <2>1. Seen(m, r) = Seen(m, p)
    BY <1>2, SeenSame
  <2> QED
    BY <1>1, <1>2, <1>4, <2>1 DEF Follows, Tells
<1>5. CASE setLocation(p, location) = q
  <2>1. /\ IsPublished(t) /\ t.activity = p.activity
        /\ t.announced = p.announced /\ t.location = location
    BY <1>2, SendEffect
  <2>2. Seen(m, t) = Observe(Seen(m, p), s) /\ IsSignals(t.signals)
    BY <1>1, <1>2, SeenSend, SeenSame
  <2>3. /\ IsView(Seen(m, t))
        /\ Seen(m, t).location = toVariantMap(location)
        /\ Seen(m, t).activity = Seen(m, p).activity
        /\ Seen(m, t).object = Seen(m, p).object
    BY <1>1, <2>2, ObserveChange DEF Tells
  <2> HIDE DEF s, t
  <2>4. /\ IsPublished(q) /\ q.signals = t.signals /\ q.activity = t.activity
        /\ q.announced = t.announced /\ q.location = t.location
    BY <2>1, PresenceEffect, PresenceOrder
  <2>5. Seen(m, q) = Seen(m, t)
    BY <2>4, SeenSame
  <2> HIDE DEF q
  <2> QED
    BY <1>1, <1>5, <2>1, <2>2, <2>3, <2>4, <2>5 DEF Follows, Tells
<1> QED
  BY <1>3, <1>4, <1>5

EncounterInterfaces == {"Activity", "Activity.Encounter"}
DungeonInterfaces == {"Activity", "Activity.Dungeon"}

\* The bag tells which interfaces the object of a run has.
LEMMA InterfacesOfRuns ==
  /\ InterfacesOf(None) = {}
  /\ \A e \in Encounters : InterfacesOf(e) = EncounterInterfaces
  /\ \A d \in Dungeons : InterfacesOf(d) = DungeonInterfaces
<1>1. ASSUME NEW e \in Encounters
      PROVE  InterfacesOf(e) = EncounterInterfaces
  <2>1. BagOf(e) = fromEncounter(e) /\ e # None
    BY RunKinds DEF BagOf
  <2>2. "type" \in DOMAIN fromEncounter(e) /\ fromEncounter(e)["type"] = Str("encounter")
    BY DEF fromEncounter
  <2>3. isEncounter(BagOf(e))
    BY <2>1, <2>2 DEF isEncounter, Read, Str
  <2> QED
    BY <2>1, <2>3 DEF InterfacesOf, EncounterInterfaces
<1>2. ASSUME NEW d \in Dungeons
      PROVE  InterfacesOf(d) = DungeonInterfaces
  <2>1. BagOf(d) = fromDungeon(d) /\ d # None
    BY RunKinds DEF BagOf
  <2>2. "type" \in DOMAIN fromDungeon(d) /\ fromDungeon(d)["type"] = Str("dungeon")
    BY DEF fromDungeon
  <2>3. isDungeon(BagOf(d)) /\ ~isEncounter(BagOf(d))
    BY <2>1, <2>2 DEF isDungeon, isEncounter, Read, Str
  <2> QED
    BY <2>1, <2>3 DEF InterfacesOf, DungeonInterfaces
<1> QED
  BY <1>1, <1>2 DEF InterfacesOf

Locations ==
  [uiMap : UiMaps \cup {None}, zone : [name : ZoneNames, difficultyId : Nat] \cup {None}]

\* The object a client knows of, when the activity is a: it is what is served,
\* or that of the encounter the dungeon was published over.
ObjectShown(object, announced, activity) ==
  \/ announced = InterfacesOf(activity) /\ object = Snapshot(activity)
  \/ announced = EncounterInterfaces /\ activity \in Dungeons

\* Without interfaces there is nothing to serve.
LEMMA NothingShown ==
  ASSUME NEW o, IsObject(o), DOMAIN o = {}
  PROVE  ObjectShown(o, {}, None)
<1>1. Snapshot(None) = [i \in {} |-> propertiesOf(i, BagOf(None))]
  BY InterfacesOfRuns DEF Snapshot
<1>2. o = [i \in {} |-> o[i]]
  BY DEF IsObject
<1>3. o = Snapshot(None)
  BY <1>1, <1>2
<1> QED
  BY <1>3, InterfacesOfRuns DEF ObjectShown

\* A step keeps the client's view of the object true, if a run that starts while
\* another is shown is a dungeon over an encounter, whose object then stays.
LEMMA ReactView ==
  ASSUME NEW m, NEW p, Follows(m, p), Announced(p), p.activity \in Runs \cup {None},
         p.location \in Locations,
         ObjectShown(Seen(m, p).object, p.announced, p.activity),
         NEW e \in Emissions,
         e.started # None /\ e.stopped = None /\ p.activity # None =>
           p.activity \in Encounters /\ e.started \in Dungeons
  PROVE  LET q == React(p, e) IN
         /\ Follows(m, q)
         /\ q.location \in Locations
         /\ ObjectShown(Seen(m, q).object, q.announced, q.activity)
<1> DEFINE a == IF e.stopped = None THEN p ELSE endActivity(p, e.stopped)
           b == IF e.started = None THEN a ELSE setActivity(a, e.started)
           c == IF e.uiMap = None THEN b
                ELSE setLocation(b, [b.location EXCEPT !.uiMap = e.uiMap])
           d == IF e.zone = None THEN c
                ELSE setLocation(c, [c.location EXCEPT !.zone = e.zone])
<1>1. /\ e.started \in Runs \cup {None} /\ e.uiMap \in UiMaps \cup {None}
      /\ e.zone \in [name : ZoneNames, difficultyId : Nat] \cup {None}
  BY DEF Emissions
<1>2. React(p, e) = d
  BY DEF React
<1>3. /\ Follows(m, a) /\ Announced(a) /\ a.location = p.location
      /\ a.activity = IF e.stopped # None THEN None ELSE p.activity
      /\ ObjectShown(Seen(m, a).object, a.announced, a.activity)
  <2>1. CASE e.stopped = None
    BY <2>1
  <2>2. CASE e.stopped # None
    <3>1. /\ a = endActivity(p, e.stopped) /\ IsPublished(p)
      BY <2>2 DEF Follows
    <3> HIDE DEF a
    <3>2. Announced(a) /\ a.activity = None
      BY <3>1, EndActivityEffect
    <3>3. Follows(m, a) /\ a.location = p.location /\ a.announced = {}
      BY <3>1, EndActivityView
    <3>4. ObjectShown(Seen(m, a).object, a.announced, None)
      BY <3>3, NothingShown DEF Follows, Tells
    <3> QED
      BY <2>2, <3>2, <3>3, <3>4
  <2> QED
    BY <2>1, <2>2
<1> HIDE DEF a
<1>4. /\ Follows(m, b) /\ Announced(b) /\ b.location = p.location
      /\ ObjectShown(Seen(m, b).object, b.announced, b.activity)
  <2>1. CASE e.started = None
    BY <1>3, <2>1
  <2>2. CASE e.started # None
    <3>1. /\ b = setActivity(a, e.started) /\ IsPublished(a) /\ e.started \in Runs
          /\ a.activity \in Runs \cup {None}
      BY <1>1, <1>3, <2>2 DEF Follows
    <3> HIDE DEF b
    <3>2. a.activity # None => a.activity \in Encounters /\ e.started \in Dungeons
      BY <1>3, <2>2
    <3>3. a.activity # None => a.activity.kind # e.started.kind
      BY <3>2, RunKinds
    <3>4. Announced(b) /\ b.activity = e.started
      BY <1>3, <3>1, <3>3, BeginActivityEffect
    <3>5. /\ ~a.live => a.announced = {}
          /\ a.live => a.activity # None
      BY <1>3 DEF Announced
    <3>6. BagOf(a.activity) # BagOf(e.started)
      BY <3>1, <3>3, BagsDiffer
    <3>7. /\ Follows(m, b) /\ b.location = a.location
          /\ \/ b.announced = a.announced /\ a.live
             \/ b.announced = InterfacesOf(b.activity) /\ Seen(m, b).object = Snapshot(b.activity)
      BY <1>3, <2>2, <3>1, <3>4, <3>5, <3>6, SetActivityView
    <3>8. CASE b.announced = a.announced /\ a.live
      <4>1. a.activity \in Encounters /\ b.activity \in Dungeons
        BY <3>2, <3>4, <3>5, <3>8
      <4>2. a.activity \notin Dungeons
        BY <4>1, RunKinds
      <4>3. a.announced = EncounterInterfaces
        BY <1>3, <4>1, <4>2, InterfacesOfRuns DEF ObjectShown
      <4> QED
        BY <1>3, <3>4, <3>7, <3>8, <4>1, <4>3 DEF ObjectShown
    <3>9. CASE b.announced = InterfacesOf(b.activity) /\ Seen(m, b).object = Snapshot(b.activity)
      BY <1>3, <3>4, <3>7, <3>9 DEF ObjectShown
    <3> QED
      BY <3>7, <3>8, <3>9
  <2> QED
    BY <2>1, <2>2
<1> HIDE DEF b
<1>5. /\ Follows(m, c) /\ Announced(c) /\ c.location \in Locations
      /\ ObjectShown(Seen(m, c).object, c.announced, c.activity)
  <2>1. CASE e.uiMap = None
    BY <1>4, <2>1
  <2>2. CASE e.uiMap # None
    <3> DEFINE location == [b.location EXCEPT !.uiMap = e.uiMap]
    <3>1. c = setLocation(b, location) /\ IsPublished(b)
      BY <1>4, <2>2 DEF Follows
    <3>2. location \in Locations
      BY <1>1, <1>4 DEF Locations
    <3> HIDE DEF c, location
    <3>3. Announced(c) /\ c.activity = b.activity
      BY <1>4, <3>1, SetLocationEffect
    <3> QED
      BY <1>4, <3>1, <3>2, <3>3, SetLocationView
  <2> QED
    BY <2>1, <2>2
<1> HIDE DEF c
<1>6. /\ Follows(m, d) /\ d.location \in Locations
      /\ ObjectShown(Seen(m, d).object, d.announced, d.activity)
  <2>1. CASE e.zone = None
    BY <1>5, <2>1
  <2>2. CASE e.zone # None
    <3> DEFINE location == [c.location EXCEPT !.zone = e.zone]
    <3>1. d = setLocation(c, location) /\ IsPublished(c)
      BY <1>5, <2>2 DEF Follows
    <3>2. location \in Locations
      BY <1>1, <1>5 DEF Locations
    <3> HIDE DEF d, location
    <3>3. d.activity = c.activity
      BY <1>5, <3>1, SetLocationEffect
    <3> QED
      BY <1>5, <3>1, <3>2, <3>3, SetLocationView
  <2> QED
    BY <2>1, <2>2
<1> QED
  BY <1>2, <1>6

-----------------------------------------------------------------------------
(* The client's view and the state. *)

\* A dungeon published over an encounter leaves the encounter's object in the
\* view; in every other state the object is what is served.
ViewInv ==
  /\ Tells(mirror, published)
  /\ published.location \in Locations
  /\ published.ended \in Runs \cup {None}
  /\ ObjectShown(mirror.object, published.announced, published.activity)

\* Initially both are empty.
LEMMA ViewInit == ObserverInit => ViewInv
<1> SUFFICES ASSUME ObserverInit PROVE ViewInv
  OBVIOUS
<1>1. /\ published.activity = None /\ published.ended = None /\ published.announced = {}
      /\ published.location = [uiMap |-> None, zone |-> None]
      /\ mirror = [activity |-> None, location |-> EmptyMap, object |-> NoObject]
  BY DEF ObserverInit
<1>2. toVariantMap(published.location) = EmptyMap
  BY <1>1 DEF toVariantMap
<1>3. IsObject(mirror.object) /\ DOMAIN mirror.object = {}
  BY <1>1 DEF IsObject, NoObject
<1>4. published.location \in Locations
  BY <1>1 DEF Locations
<1>5. Tells(mirror, published)
  BY <1>1, <1>2, <1>3, BagsDiffer DEF Tells, IsView
<1> QED
  BY <1>1, <1>3, <1>4, <1>5, NothingShown DEF ViewInv

\* A step keeps them together.
LEMMA ViewStep ==
  ASSUME ObserverInv, ViewInv, ObserverNext
  PROVE  ViewInv'
<1> DEFINE p == [published EXCEPT !.signals = <<>>]
<1>1. emitted' \in Emissions /\ SlotsStep
  BY TrackerSlots DEF ObserverInv, ObserverNext
<1>2. /\ IsPublished(p) /\ p.signals = <<>>
      /\ p.activity = published.activity /\ p.ended = published.ended
      /\ p.live = published.live /\ p.announced = published.announced
      /\ p.location = published.location
  BY DEF ObserverInv, IsPublished, Members
<1>3. published' = React(p, emitted') /\ mirror' = Seen(mirror, published')
  BY DEF ObserverNext, Publish, Seen
<1> HIDE DEF p
<1>4. Announced(p) /\ p.activity \in Runs \cup {None}
  BY <1>2 DEF ObserverInv, Announced
<1>5. Seen(mirror, p) = mirror
  BY <1>2, ObserveNothing DEF Seen
<1>6. Follows(mirror, p)
  <2>1. <<>> \in Seq({})
    OBVIOUS
  <2> QED
    BY <1>2, <1>5, <2>1 DEF Follows, ViewInv, Tells, IsSignals
<1>7. ASSUME emitted'.started # None, emitted'.stopped = None, p.activity # None
      PROVE  p.activity \in Encounters /\ emitted'.started \in Dungeons
  <2>1. PICK slot \in Kinds, run \in Runs : SlotBegins(slot, run)
    BY <1>1, <1>7 DEF SlotsStep, SlotsQuiet, SlotEnds, SlotReplaced
  <2>2. PICK other \in Kinds : p.activity = OpenRuns[other]
    BY <1>2, <1>7, TrackedIsOpen DEF ObserverInv, ShownIsOpen
  <2>3. OpenRuns[other].kind = other /\ other # slot /\ other # "dungeon"
    BY <1>7, <2>1, <2>2, OpenRunsType DEF ObserverInv, SlotBegins
  <2>4. p.activity.kind = "encounter" /\ run.kind = "dungeon" /\ emitted'.started = run
    BY <2>1, <2>2, <2>3 DEF SlotBegins, Kinds
  <2>5. p.activity \in Runs
    BY <1>4, <1>7
  <2> QED
    BY <2>4, <2>5, RunKinds DEF Runs
<1>8. LET q == React(p, emitted') IN
      /\ Follows(mirror, q)
      /\ q.location \in Locations
      /\ ObjectShown(Seen(mirror, q).object, q.announced, q.activity)
  BY <1>1, <1>2, <1>4, <1>5, <1>6, <1>7, ReactView DEF ViewInv
<1>9. published'.ended \in Runs \cup {None}
  <2>1. emitted'.stopped \in Stops \cup {None}
    BY <1>1 DEF Emissions
  <2>2. published'.ended = IF emitted'.stopped = None THEN published.ended
                           ELSE emitted'.stopped.run
    BY PublishEffect
  <2> QED
    BY <2>1, <2>2 DEF ViewInv, Stops
<1>10. /\ Tells(mirror', published')
       /\ published'.location \in Locations
       /\ ObjectShown(mirror'.object, published'.announced, published'.activity)
  BY <1>3, <1>8 DEF Follows
<1> QED
  BY <1>9, <1>10 DEF ViewInv

\* The view agrees with the state in every reachable state.
LEMMA ViewInvariant == ObserverSpec => [](ObserverInv /\ ViewInv)
<1>1. ObserverInv /\ ViewInv /\ [ObserverNext]_observerVars => ViewInv'
  <2>1. CASE UNCHANGED observerVars
    BY <2>1 DEF observerVars, ViewInv
  <2> QED
    BY <2>1, ViewStep
<1> QED
  BY <1>1, ViewInit, ObserverInvariant, PTL DEF ObserverSpec

\* Every member of the daemon and of the client keeps its type.
THEOREM ObserverTypesHold == ObserverSpec => []ObserverTypeOK
<1>1. ObserverInv /\ ViewInv => ObserverTypeOK
  <2> SUFFICES ASSUME ObserverInv, ViewInv PROVE ObserverTypeOK
    OBVIOUS
  <2>1. published.announced \subseteq Interfaces
    BY InterfacesOfRuns DEF ObserverInv, ViewInv, ObjectShown, Interfaces, EncounterInterfaces,
       DungeonInterfaces, Runs
  <2>2. /\ TypeOK /\ published.activity \in Runs \cup {None} /\ published.live \in BOOLEAN
    BY DEF ObserverInv, IInv, Announced
  <2>3. published.location.uiMap \in UiMaps \cup {None}
    BY DEF ViewInv, Locations
  <2>4. DOMAIN mirror.object = published.announced /\ published.ended \in Runs \cup {None}
    BY DEF ViewInv, Tells
  <2> QED
    BY <2>1, <2>2, <2>3, <2>4 DEF ObserverTypeOK
<1> QED
  BY <1>1, ViewInvariant, PTL

\* A client that folds the PropertiesChanged signals of any number of steps
\* has what a Get would return, although GameState drops changes.
THEOREM MirrorFollows == ObserverSpec => []MirrorMatchesProperties
<1>1. ViewInv => MirrorMatchesProperties
  BY DEF ViewInv, Tells, MirrorMatchesProperties
<1> QED
  BY <1>1, ViewInvariant, PTL

\* The object it assembles from InterfacesAdded and InterfacesRemoved is the
\* one served, every property of it, while it is of the kind announced.
THEOREM ObjectIsServed == ObserverSpec => []AnnouncedObjectIsServed
<1>1. ObserverInv /\ ViewInv => AnnouncedObjectIsServed
  <2> SUFFICES ASSUME ObserverInv, ViewInv PROVE AnnouncedObjectIsServed
    OBVIOUS
  <2>1. \A d \in Dungeons : InterfacesOf(d) # EncounterInterfaces
    BY InterfacesOfRuns DEF EncounterInterfaces, DungeonInterfaces
  <2>2. published.announced = InterfacesOf(published.activity) =>
          mirror.object = Snapshot(published.activity)
    BY <2>1 DEF ViewInv, ObjectShown
  <2> QED
    BY <2>2 DEF ViewInv, Tells, AnnouncedObjectIsServed
<1> QED
  BY <1>1, ViewInvariant, PTL

\* What is announced stays what is served, if a run only starts once nothing is
\* shown.
LEMMA ReactAnnounces ==
  ASSUME NEW m, NEW p, Follows(m, p), Announced(p), p.activity \in Runs \cup {None},
         p.announced = InterfacesOf(p.activity),
         NEW e \in Emissions,
         e.started # None /\ e.stopped = None => p.activity = None
  PROVE  LET q == React(p, e) IN q.announced = InterfacesOf(q.activity)
<1> DEFINE a == IF e.stopped = None THEN p ELSE endActivity(p, e.stopped)
           b == IF e.started = None THEN a ELSE setActivity(a, e.started)
           c == IF e.uiMap = None THEN b
                ELSE setLocation(b, [b.location EXCEPT !.uiMap = e.uiMap])
           d == IF e.zone = None THEN c
                ELSE setLocation(c, [c.location EXCEPT !.zone = e.zone])
           Fresh(q) == q.announced = InterfacesOf(q.activity)
<1>1. e.started \in Runs \cup {None} /\ React(p, e) = d
  BY DEF Emissions, React
<1>2. /\ Follows(m, a) /\ Announced(a) /\ Fresh(a)
      /\ a.activity = IF e.stopped # None THEN None ELSE p.activity
  <2>1. CASE e.stopped = None
    BY <2>1
  <2>2. CASE e.stopped # None
    <3>1. a = endActivity(p, e.stopped) /\ IsPublished(p)
      BY <2>2 DEF Follows
    <3> HIDE DEF a
    <3>2. Announced(a) /\ a.activity = None
      BY <3>1, EndActivityEffect
    <3>3. Follows(m, a) /\ a.announced = {}
      BY <3>1, EndActivityView
    <3> QED
      BY <2>2, <3>2, <3>3, InterfacesOfRuns
  <2> QED
    BY <2>1, <2>2
<1> HIDE DEF a
<1>3. Follows(m, b) /\ Announced(b) /\ Fresh(b)
  <2>1. CASE e.started = None
    BY <1>2, <2>1
  <2>2. CASE e.started # None
    <3>1. /\ b = setActivity(a, e.started) /\ IsPublished(a) /\ e.started \in Runs
          /\ a.activity = None
      BY <1>1, <1>2, <2>2 DEF Follows
    <3> HIDE DEF b
    <3>2. Announced(b) /\ b.activity = e.started
      BY <1>2, <3>1, BeginActivityEffect
    <3>3. ~a.live /\ a.announced = {}
      BY <1>2, <3>1 DEF Announced
    <3>4. BagOf(a.activity) # BagOf(e.started)
      BY <3>1, BagsDiffer
    <3>5. Follows(m, b) /\ b.announced = InterfacesOf(e.started)
      BY <1>2, <2>2, <3>1, <3>3, <3>4, SetActivityView
    <3> QED
      BY <3>2, <3>5
  <2> QED
    BY <2>1, <2>2
<1> HIDE DEF b
<1>4. Follows(m, c) /\ Announced(c) /\ Fresh(c)
  <2>1. CASE e.uiMap = None
    BY <1>3, <2>1
  <2>2. CASE e.uiMap # None
    <3> DEFINE location == [b.location EXCEPT !.uiMap = e.uiMap]
    <3>1. c = setLocation(b, location) /\ IsPublished(b)
      BY <1>3, <2>2 DEF Follows
    <3> HIDE DEF c, location
    <3>2. Announced(c) /\ c.activity = b.activity
      BY <1>3, <3>1, SetLocationEffect
    <3> QED
      BY <1>3, <3>1, <3>2, SetLocationView
  <2> QED
    BY <2>1, <2>2
<1> HIDE DEF c
<1>5. Fresh(d)
  <2>1. CASE e.zone = None
    BY <1>4, <2>1
  <2>2. CASE e.zone # None
    <3> DEFINE location == [c.location EXCEPT !.zone = e.zone]
    <3>1. d = setLocation(c, location) /\ IsPublished(c)
      BY <1>4, <2>2 DEF Follows
    <3> HIDE DEF d, location
    <3>2. d.activity = c.activity
      BY <1>4, <3>1, SetLocationEffect
    <3> QED
      BY <1>4, <3>1, <3>2, SetLocationView
  <2> QED
    BY <2>1, <2>2
<1> QED
  BY <1>1, <1>5

\* So it does in every step, while the slots are used one at a time.
LEMMA AnnouncedStep ==
  ASSUME ObserverInv, ViewInv, OneRunAtATime', ObserverNext,
         published.announced = InterfacesOf(published.activity)
  PROVE  published'.announced = InterfacesOf(published'.activity)
<1> DEFINE p == [published EXCEPT !.signals = <<>>]
<1>1. emitted' \in Emissions /\ SlotsStep
  BY TrackerSlots DEF ObserverInv, ObserverNext
<1>2. /\ IsPublished(p) /\ p.signals = <<>>
      /\ p.activity = published.activity /\ p.live = published.live
      /\ p.announced = published.announced /\ p.location = published.location
  BY DEF ObserverInv, IsPublished, Members
<1>3. published' = React(p, emitted')
  BY DEF ObserverNext, Publish
<1> HIDE DEF p
<1>4. Announced(p) /\ p.activity \in Runs \cup {None}
  BY <1>2 DEF ObserverInv, Announced
<1>5. Follows(mirror, p)
  <2>1. <<>> \in Seq({})
    OBVIOUS
  <2>2. Seen(mirror, p) = mirror
    BY <1>2, ObserveNothing DEF Seen
  <2> QED
    BY <1>2, <2>1, <2>2 DEF Follows, ViewInv, Tells, IsSignals
<1>6. ASSUME emitted'.started # None, emitted'.stopped = None
      PROVE  p.activity = None
  <2>1. PICK slot \in Kinds, run \in Runs : SlotBegins(slot, run)
    BY <1>1, <1>6 DEF SlotsStep, SlotsQuiet, SlotEnds, SlotReplaced
  <2>2. OpenRuns[slot] = None /\ \A other \in Kinds \ {slot} : OpenRuns'[other] = OpenRuns[other]
    BY <2>1 DEF SlotBegins, OpenRuns, Kinds
  <2>3. OpenRuns'[slot] # None
    <3>1. OpenRuns'[slot] = run
      BY <2>1 DEF SlotBegins, OpenRuns, Kinds
    <3> QED
      BY <3>1, NoneAssumption
  <2>4. \A other \in Kinds \ {slot} : OpenRuns'[other] = None
    BY <2>3 DEF OneRunAtATime, OpenRuns, Kinds
  <2>5. published.activity # None => \E other \in Kinds : published.activity = OpenRuns[other]
    BY TrackedIsOpen DEF ObserverInv, ShownIsOpen
  <2> QED
    BY <1>2, <2>2, <2>4, <2>5
<1> QED
  BY <1>1, <1>2, <1>3, <1>4, <1>5, <1>6, ReactAnnounces

\* How far stale interfaces go: while no encounter is in progress together with
\* a dungeon, a client was told of the very interfaces that are served.
THEOREM AloneAnnouncedIsServed ==
  ObserverSpec /\ []OneRunAtATime => []AnnouncedInterfacesAreServed
<1> DEFINE Fresh == published.announced = InterfacesOf(published.activity)
<1>1. ObserverInit => Fresh
  BY InterfacesOfRuns DEF ObserverInit
<1>2. ObserverInv /\ ViewInv /\ OneRunAtATime' /\ Fresh /\ [ObserverNext]_observerVars => Fresh'
  <2>1. CASE UNCHANGED observerVars
    BY <2>1 DEF observerVars
  <2> QED
    BY <2>1, AnnouncedStep
<1>3. ViewInv /\ Fresh => AnnouncedInterfacesAreServed
  BY DEF ViewInv, Tells, AnnouncedInterfacesAreServed
<1> HIDE DEF Fresh
<1> QED
  BY <1>1, <1>2, <1>3, ViewInvariant, PTL DEF ObserverSpec

-----------------------------------------------------------------------------
(* How clients read the state. *)

\* The properties of an interface are those of the contract, each of its type.
OfContract(interface, bag) ==
  /\ bag = [name \in DOMAIN bag |-> bag[name]]
  /\ DOMAIN bag = DOMAIN m_interfaces[interface]
  /\ \A name \in DOMAIN bag : bag[name][1] = m_interfaces[interface][name]

\* Whatever the bag holds, what is projected from it is of the contract.
LEMMA ProjectionOfContract ==
  ASSUME NEW bag
  PROVE  \A i \in Interfaces : i \in DOMAIN m_interfaces /\ OfContract(i, propertiesOf(i, bag))
<1>1. DOMAIN m_interfaces =
        {"Observer", "Activity", "Activity.Encounter", "Activity.Dungeon", "Recording"}
  BY DEF m_interfaces
<1>2. \A key, fallback : bagString(bag, key, fallback)[1] = "s"
  BY DEF bagString, Read, Str
<1>3. \A key, type : Read(bag, key, type)[1] = type
  BY DEF Read
<1>4. OfContract("Activity", propertiesOf("Activity", bag))
  <2>1. m_interfaces["Activity"] =
          [Type |-> "s", StartTime |-> "x", StopTime |-> "x", Outcome |-> "s", Recording |-> "o"]
    BY DEF m_interfaces
  <2>2. propertiesOf("Activity", bag) = activityInterfaceProperties(bag)
    BY DEF propertiesOf
  <2>3. ObjectPath("/")[1] = "o"
    BY DEF ObjectPath
  <2> QED
    BY <1>2, <1>3, <2>1, <2>2, <2>3 DEF OfContract, activityInterfaceProperties
<1>5. OfContract("Activity.Encounter", propertiesOf("Activity.Encounter", bag))
  <2>1. m_interfaces["Activity.Encounter"] =
          [EncounterId |-> "u", EncounterName |-> "s", Difficulty |-> "s", DifficultyId |-> "u"]
    BY DEF m_interfaces
  <2>2. propertiesOf("Activity.Encounter", bag) = encounterInterfaceProperties(bag)
    BY DEF propertiesOf
  <2> QED
    BY <1>3, <2>1, <2>2 DEF OfContract, encounterInterfaceProperties
<1>6. OfContract("Activity.Dungeon", propertiesOf("Activity.Dungeon", bag))
  <2>1. m_interfaces["Activity.Dungeon"] =
          [ZoneId |-> "u", KeystoneLevel |-> "u", ChallengeMapId |-> "u", DurationMs |-> "x"]
    BY DEF m_interfaces
  <2>2. propertiesOf("Activity.Dungeon", bag) = dungeonInterfaceProperties(bag)
    BY DEF propertiesOf
  <2> QED
    BY <1>3, <2>1, <2>2 DEF OfContract, dungeonInterfaceProperties
<1> QED
  BY <1>1, <1>4, <1>5, <1>6 DEF Interfaces

\* What is of the contract, the coercion leaves alone.
LEMMA CoercionChangesNothing ==
  ASSUME NEW interface \in DOMAIN m_interfaces, NEW bag, OfContract(interface, bag)
  PROVE  /\ coerceBag(interface, bag) = bag
         /\ \A name \in DOMAIN m_interfaces[interface] :
              coerceValue(m_interfaces[interface][name], valueOf(bag, name)) = bag[name]
<1>1. \A name \in DOMAIN m_interfaces[interface] :
        coerceValue(m_interfaces[interface][name], valueOf(bag, name)) = bag[name]
  BY DEF OfContract, coerceValue, valueOf
<1>2. coerceBag(interface, bag) = [name \in DOMAIN m_interfaces[interface] |-> bag[name]]
  BY <1>1 DEF coerceBag
<1> QED
  BY <1>1, <1>2 DEF OfContract

\* The object of a run, and that of no run, in every way it is kept.
LEMMA ObjectOf ==
  ASSUME NEW activity \in Runs \cup {None}
  PROVE  /\ DOMAIN Snapshot(activity) \subseteq Interfaces
         /\ \A i \in DOMAIN Snapshot(activity) :
              i \in DOMAIN m_interfaces /\ OfContract(i, Snapshot(activity)[i])
<1>1. DOMAIN Snapshot(activity) = InterfacesOf(activity)
  BY DEF Snapshot
<1>2. InterfacesOf(activity) \subseteq Interfaces
  BY InterfacesOfRuns DEF Runs, Interfaces, EncounterInterfaces, DungeonInterfaces
<1>3. \A i \in InterfacesOf(activity) : Snapshot(activity)[i] = propertiesOf(i, BagOf(activity))
  BY DEF Snapshot
<1> QED
  BY <1>1, <1>2, <1>3, ProjectionOfContract

\* GetManagedObjects serves what the property tree resolves.
LEMMA ManagedObjects ==
  ASSUME NEW p
  PROVE  LET objects == GetManagedObjects(p) IN
         \A path \in Paths \ {"/"} :
           /\ (IF path \in DOMAIN objects THEN objects[path] ELSE NoObject) = resolve(p, path)
           /\ path \in DOMAIN objects <=>
                path = "/activity/current" /\ resolve(p, "/activity/current") # NoObject
BY DEF GetManagedObjects, resolve, Paths

\* A call is answered with what is served, or is an error.
LEMMA CallAnswered ==
  ASSUME NEW p, p.activity \in Runs \cup {None}, NEW call \in Calls
  PROVE  LET object == resolve(p, call.path)
             served == valueOf(object, call.interface)
         IN  handleProperties(p, call).value =
               IF call.interface \notin DOMAIN object \/ call.member = "Set" THEN Invalid
               ELSE IF call.member = "GetAll" THEN served
               ELSE valueOf(served, call.property)
<1> DEFINE object == resolve(p, call.path)
           i == call.interface
           served == valueOf(object, i)
<1>1. \A name : Error(name).value = Invalid
  BY DEF Error
<1>2. \A value : Reply(value).value = value
  BY DEF Reply
<1>3. DOMAIN NoObject = {}
  BY DEF NoObject
<1>4. i \in DOMAIN object => i \in DOMAIN m_interfaces /\ OfContract(i, object[i])
  <2>1. object = Snapshot(p.activity) \/ object = NoObject
    BY DEF resolve
  <2> QED
    BY <1>3, <2>1, ObjectOf
<1>5. CASE i \notin DOMAIN object
  BY <1>1, <1>5 DEF handleProperties
<1>6. CASE i \in DOMAIN object
  <2>1. served = object[i] /\ object # NoObject
    BY <1>3, <1>6 DEF valueOf
  <2>2. /\ coerceBag(i, object[i]) = object[i]
        /\ \A name \in DOMAIN m_interfaces[i] :
             coerceValue(m_interfaces[i][name], valueOf(object[i], name)) = object[i][name]
        /\ DOMAIN object[i] = DOMAIN m_interfaces[i]
    BY <1>4, <1>6, CoercionChangesNothing DEF OfContract
  <2> HIDE DEF object, served
  <2>3. CASE call.member = "GetAll"
    <3>1. handleProperties(p, call) = Reply(coerceBag(i, object[i]))
      BY <1>6, <2>1, <2>3 DEF handleProperties, object
    <3> QED
      BY <1>2, <1>6, <2>1, <2>2, <2>3, <3>1 DEF object, served
  <2>4. CASE call.member # "GetAll" /\ call.property \notin DOMAIN m_interfaces[i]
    <3>1. handleProperties(p, call) = Error("UnknownProperty")
      BY <1>6, <2>1, <2>4 DEF handleProperties, object
    <3>2. valueOf(served, call.property) = Invalid
      BY <2>1, <2>2, <2>4 DEF valueOf
    <3> QED
      BY <1>1, <1>6, <2>4, <3>1, <3>2 DEF object, served
  <2>5. CASE call.member = "Set" /\ call.property \in DOMAIN m_interfaces[i]
    BY <1>1, <1>6, <2>1, <2>2, <2>5 DEF handleProperties, object
  <2>6. CASE call.member \notin {"GetAll", "Set"} /\ call.property \in DOMAIN m_interfaces[i]
    <3>1. handleProperties(p, call) =
            Reply(coerceValue(m_interfaces[i][call.property],
                              valueOf(object[i], call.property)))
      BY <1>6, <2>1, <2>6 DEF handleProperties, object
    <3>2. valueOf(served, call.property) = object[i][call.property]
      BY <2>1, <2>2, <2>6 DEF valueOf
    <3> QED
      BY <1>2, <1>6, <2>2, <2>6, <3>1, <3>2 DEF object, served
  <2> QED
    BY <2>3, <2>4, <2>5, <2>6 DEF object, served
<1> QED
  BY <1>5, <1>6

\* In whatever way a client reads the activity object, it reads the same.
THEOREM EveryReaderAgrees == ObserverSpec => []ReadersAgree
<1>1. ObserverInv => ReadersAgree
  <2> SUFFICES ASSUME ObserverInv PROVE ReadersAgree
    OBVIOUS
  <2> DEFINE objects == GetManagedObjects(published)
             Object(path) == IF path \in DOMAIN objects THEN objects[path] ELSE NoObject
  <2>1. published.activity \in Runs \cup {None}
    BY DEF ObserverInv
  <2>2. \A path \in Paths \ {"/"} : Object(path) = resolve(published, path)
    BY ManagedObjects
  <2>3. ASSUME NEW call \in Calls
        PROVE  LET object == Object(call.path)
                   served == valueOf(object, call.interface)
               IN  handleProperties(published, call).value =
                     IF call.interface \notin DOMAIN object \/ call.member = "Set" THEN Invalid
                     ELSE IF call.member = "GetAll" THEN served
                     ELSE valueOf(served, call.property)
    <3>1. Object(call.path) = resolve(published, call.path)
      BY <2>2 DEF Calls, Paths
    <3> HIDE DEF Object
    <3> QED
      BY <2>1, <3>1, CallAnswered
  <2>4. ASSUME NEW path \in Paths \ {"/"}
        PROVE  LET listed == introspectionXmlFor(published, path) IN
               /\ DOMAIN listed.interfaces = DOMAIN Object(path)
               /\ \A i \in DOMAIN listed.interfaces :
                    DOMAIN listed.interfaces[i] = DOMAIN Object(path)[i]
               /\ "current" \in listed.nodes <=>
                    path = "/activity" /\ "/activity/current" \in DOMAIN objects
    <3> DEFINE listed == introspectionXmlFor(published, path)
               object == resolve(published, path)
    <3>1. /\ listed.interfaces = [i \in DOMAIN object \cap DOMAIN m_interfaces |-> m_interfaces[i]]
          /\ listed.nodes = IF path = "/activity"
                               /\ resolve(published, "/activity/current") # NoObject
                            THEN {"current"} ELSE {}
      BY DEF introspectionXmlFor
    <3>2. \A i \in DOMAIN object : i \in DOMAIN m_interfaces /\ OfContract(i, object[i])
      <4>1. object = Snapshot(published.activity) \/ object = NoObject
        BY DEF resolve
      <4>2. DOMAIN NoObject = {}
        BY DEF NoObject
      <4> QED
        BY <2>1, <4>1, <4>2, ObjectOf
    <3>3. Object(path) = object
      BY <2>2
    <3>4. "/activity/current" \in DOMAIN objects <=>
            resolve(published, "/activity/current") # NoObject
      BY ManagedObjects DEF Paths
    <3> HIDE DEF listed, object, objects, Object
    <3>5. DOMAIN listed.interfaces = DOMAIN object
      BY <3>1, <3>2
    <3>6. \A i \in DOMAIN object : DOMAIN listed.interfaces[i] = DOMAIN object[i]
      BY <3>1, <3>2 DEF OfContract
    <3> QED
      BY <3>1, <3>3, <3>4, <3>5, <3>6 DEF listed
  <2> QED
    BY <2>3, <2>4 DEF ReadersAgree
<1> QED
  BY <1>1, ObserverInvariant, PTL

\* What an object without a key of its own shows.
Otherwise(name) ==
  IF name = "Outcome" THEN Str("unknown") ELSE IF name = "Recording" THEN ObjectPath("/")
  ELSE Int64(0)

\* Each property of an interface is the entry of its key.
Tell(properties, bag) ==
  \A name \in DOMAIN properties :
    properties[name] = IF name \in DOMAIN KeyOf THEN bag[KeyOf[name]] ELSE Otherwise(name)

\* A key the bag has reads as it is, any other as zero or empty.
LEMMA ReadIs ==
  ASSUME NEW bag, NEW key, NEW type
  PROVE  /\ key \in DOMAIN bag => \A x : bag[key] = <<type, x>> => Read(bag, key, type) = bag[key]
         /\ key \notin DOMAIN bag => Read(bag, key, type) = <<type, Default(type)>>
BY DEF Read

\* Zero and empty.
LEMMA Defaults == Default("s") = "" /\ Default("x") = 0
BY DEF Default

\* An unsigned number is one, whatever wraps around.
LEMMA UIntIs == \A n : \E x : UInt(n) = <<"u", x>>
BY Zenon DEF UInt

\* What every activity shows.
LEMMA ActivityTells ==
  ASSUME NEW bag, NEW kind \in Kinds, NEW time,
         {"type", "startTime"} \subseteq DOMAIN bag, "stopTime" \notin DOMAIN bag,
         "outcome" \notin DOMAIN bag,
         bag["type"] = Str(kind), bag["startTime"] = Int64(time)
  PROVE  Tell(activityInterfaceProperties(bag), bag)
<1> DEFINE properties == activityInterfaceProperties(bag)
<1>1. DOMAIN properties = {"Type", "StartTime", "StopTime", "Outcome", "Recording"}
  BY DEF activityInterfaceProperties
<1>2. bagString(bag, "type", "unknown") = bag["type"]
  <2>1. Read(bag, "type", "s") = bag["type"] /\ bag["type"][2] = kind
    BY ReadIs DEF Str
  <2> QED
    BY <2>1 DEF bagString, Kinds
<1>3. Read(bag, "startTime", "x") = bag["startTime"]
  BY ReadIs DEF Int64
<1>4. Read(bag, "stopTime", "x") = Int64(0)
  BY ReadIs, Defaults DEF Int64
<1>5. bagString(bag, "outcome", "unknown") = Str("unknown")
  <2>1. Read(bag, "outcome", "s")[2] = Default("s")
    BY ReadIs
  <2> QED
    BY <2>1, Defaults DEF bagString
<1>6. /\ properties["Type"] = bag["type"]
      /\ properties["StartTime"] = bag["startTime"]
      /\ properties["StopTime"] = Int64(0)
      /\ properties["Outcome"] = Str("unknown")
      /\ properties["Recording"] = ObjectPath("/")
  BY <1>2, <1>3, <1>4, <1>5 DEF activityInterfaceProperties
<1>7. /\ KeyOf["Type"] = "type" /\ KeyOf["StartTime"] = "startTime"
      /\ {"Type", "StartTime"} \subseteq DOMAIN KeyOf
      /\ "StopTime" \notin DOMAIN KeyOf /\ "Outcome" \notin DOMAIN KeyOf
      /\ "Recording" \notin DOMAIN KeyOf
  BY DEF KeyOf
<1> HIDE DEF properties
<1> QED
  BY <1>1, <1>6, <1>7 DEF Tell, Otherwise, properties

\* An encounter's bag, its keys and the properties of its object.
LEMMA EncounterTells ==
  ASSUME NEW e \in Encounters
  PROVE  LET bag == BagOf(e) IN
         /\ DOMAIN bag = {"type", "encounterId", "encounterName", "difficulty",
                          "difficultyId", "startTime"}
         /\ Tell(activityInterfaceProperties(bag), bag)
         /\ Tell(encounterInterfaceProperties(bag), bag)
<1> DEFINE bag == BagOf(e)
           properties == encounterInterfaceProperties(bag)
           difficulty == raidDifficultyDisplayName(e.difficultyId)
<1>1. bag = fromEncounter(e)
  BY RunKinds DEF BagOf
<1>2. DOMAIN bag = {"type", "encounterId", "encounterName", "difficulty",
                    "difficultyId", "startTime"}
  BY <1>1 DEF fromEncounter
<1>3. /\ bag["type"] = Str("encounter") /\ bag["startTime"] = Int64(e.startTime)
      /\ bag["encounterId"] = UInt(e.id)
      /\ bag["encounterName"] = Str(EncounterNames[e.id])
      /\ bag["difficulty"] = Str(difficulty)
      /\ bag["difficultyId"] = UInt(e.difficultyId)
  BY <1>1 DEF fromEncounter
<1> HIDE DEF bag, difficulty
<1>4. /\ Read(bag, "encounterId", "u") = bag["encounterId"]
      /\ Read(bag, "difficultyId", "u") = bag["difficultyId"]
  BY <1>2, <1>3, ReadIs, UIntIs
<1>5. /\ Read(bag, "encounterName", "s") = bag["encounterName"]
      /\ Read(bag, "difficulty", "s") = bag["difficulty"]
  BY <1>2, <1>3, ReadIs DEF Str
<1>6. /\ DOMAIN properties = {"EncounterId", "EncounterName", "Difficulty", "DifficultyId"}
      /\ properties["EncounterId"] = bag["encounterId"]
      /\ properties["EncounterName"] = bag["encounterName"]
      /\ properties["Difficulty"] = bag["difficulty"]
      /\ properties["DifficultyId"] = bag["difficultyId"]
  BY <1>4, <1>5 DEF encounterInterfaceProperties
<1>7. /\ KeyOf["EncounterId"] = "encounterId" /\ KeyOf["EncounterName"] = "encounterName"
      /\ KeyOf["Difficulty"] = "difficulty" /\ KeyOf["DifficultyId"] = "difficultyId"
      /\ {"EncounterId", "EncounterName", "Difficulty", "DifficultyId"} \subseteq DOMAIN KeyOf
  BY DEF KeyOf
<1>8. Tell(properties, bag)
  <2> HIDE DEF properties
  <2> QED
    BY <1>6, <1>7 DEF Tell
<1>9. Tell(activityInterfaceProperties(bag), bag)
  BY <1>2, <1>3, ActivityTells DEF Kinds
<1> QED
  BY <1>2, <1>8, <1>9 DEF bag

\* A dungeon's.
LEMMA DungeonTells ==
  ASSUME NEW d \in Dungeons
  PROVE  LET bag == BagOf(d) IN
         /\ DOMAIN bag = {"type", "challengeMapId", "zoneId", "keystoneLevel", "startTime"}
         /\ Tell(activityInterfaceProperties(bag), bag)
         /\ Tell(dungeonInterfaceProperties(bag), bag)
<1> DEFINE bag == BagOf(d)
           properties == dungeonInterfaceProperties(bag)
<1>1. bag = fromDungeon(d)
  BY RunKinds DEF BagOf
<1>2. DOMAIN bag = {"type", "challengeMapId", "zoneId", "keystoneLevel", "startTime"}
  BY <1>1 DEF fromDungeon
<1>3. /\ bag["type"] = Str("dungeon") /\ bag["startTime"] = Int64(d.startTime)
      /\ bag["challengeMapId"] = UInt(d.map.challengeMapId)
      /\ bag["zoneId"] = UInt(d.map.zoneId)
      /\ bag["keystoneLevel"] = UInt(d.level)
  BY <1>1 DEF fromDungeon
<1> HIDE DEF bag
<1>4. /\ Read(bag, "challengeMapId", "u") = bag["challengeMapId"]
      /\ Read(bag, "zoneId", "u") = bag["zoneId"]
      /\ Read(bag, "keystoneLevel", "u") = bag["keystoneLevel"]
  BY <1>2, <1>3, ReadIs, UIntIs
<1>5. Read(bag, "durationMs", "x") = Int64(0)
  BY <1>2, ReadIs, Defaults DEF Int64
<1>6. /\ DOMAIN properties = {"ZoneId", "KeystoneLevel", "ChallengeMapId", "DurationMs"}
      /\ properties["ZoneId"] = bag["zoneId"]
      /\ properties["KeystoneLevel"] = bag["keystoneLevel"]
      /\ properties["ChallengeMapId"] = bag["challengeMapId"]
      /\ properties["DurationMs"] = Int64(0)
  BY <1>4, <1>5 DEF dungeonInterfaceProperties
<1>7. /\ KeyOf["ZoneId"] = "zoneId" /\ KeyOf["KeystoneLevel"] = "keystoneLevel"
      /\ KeyOf["ChallengeMapId"] = "challengeMapId"
      /\ {"ZoneId", "KeystoneLevel", "ChallengeMapId"} \subseteq DOMAIN KeyOf
      /\ "DurationMs" \notin DOMAIN KeyOf
  BY DEF KeyOf
<1>8. Tell(properties, bag)
  <2> HIDE DEF properties
  <2> QED
    BY <1>6, <1>7 DEF Tell, Otherwise
<1>9. Tell(activityInterfaceProperties(bag), bag)
  BY <1>2, <1>3, ActivityTells DEF Kinds
<1> QED
  BY <1>2, <1>8, <1>9 DEF bag

\* The keys of the properties of an encounter's object, and of a dungeon's.
LEMMA KeysOfNames ==
  ASSUME NEW bag
  PROVE  LET activity == DOMAIN activityInterfaceProperties(bag)
             encounter == DOMAIN encounterInterfaceProperties(bag)
             dungeon == DOMAIN dungeonInterfaceProperties(bag)
         IN /\ {KeyOf[name] : name \in (activity \cup encounter) \cap DOMAIN KeyOf} =
                 {"type", "encounterId", "encounterName", "difficulty", "difficultyId", "startTime"}
            /\ {KeyOf[name] : name \in (activity \cup dungeon) \cap DOMAIN KeyOf} =
                 {"type", "challengeMapId", "zoneId", "keystoneLevel", "startTime"}
<1> DEFINE activity == DOMAIN activityInterfaceProperties(bag)
           encounter == DOMAIN encounterInterfaceProperties(bag)
           dungeon == DOMAIN dungeonInterfaceProperties(bag)
<1>1. /\ activity = {"Type", "StartTime", "StopTime", "Outcome", "Recording"}
      /\ encounter = {"EncounterId", "EncounterName", "Difficulty", "DifficultyId"}
      /\ dungeon = {"ZoneId", "KeystoneLevel", "ChallengeMapId", "DurationMs"}
  BY DEF activityInterfaceProperties, encounterInterfaceProperties, dungeonInterfaceProperties
<1>2. DOMAIN KeyOf = {"Type", "StartTime", "EncounterId", "EncounterName", "Difficulty",
                      "DifficultyId", "ZoneId", "KeystoneLevel", "ChallengeMapId"}
  BY DEF KeyOf
<1>3. /\ (activity \cup encounter) \cap DOMAIN KeyOf =
           {"Type", "StartTime", "EncounterId", "EncounterName", "Difficulty", "DifficultyId"}
      /\ (activity \cup dungeon) \cap DOMAIN KeyOf =
           {"Type", "StartTime", "ZoneId", "KeystoneLevel", "ChallengeMapId"}
  BY <1>1, <1>2
<1>4. /\ KeyOf["Type"] = "type" /\ KeyOf["StartTime"] = "startTime"
      /\ KeyOf["EncounterId"] = "encounterId" /\ KeyOf["EncounterName"] = "encounterName"
      /\ KeyOf["Difficulty"] = "difficulty" /\ KeyOf["DifficultyId"] = "difficultyId"
      /\ KeyOf["ZoneId"] = "zoneId" /\ KeyOf["KeystoneLevel"] = "keystoneLevel"
      /\ KeyOf["ChallengeMapId"] = "challengeMapId"
  BY DEF KeyOf
<1> HIDE DEF activity, encounter, dungeon
<1>5. {KeyOf[name] : name \in (activity \cup encounter) \cap DOMAIN KeyOf} =
        {"type", "encounterId", "encounterName", "difficulty", "difficultyId", "startTime"}
  BY <1>3, <1>4
<1>6. {KeyOf[name] : name \in (activity \cup dungeon) \cap DOMAIN KeyOf} =
        {"type", "challengeMapId", "zoneId", "keystoneLevel", "startTime"}
  BY <1>3, <1>4
<1> QED
  BY <1>5, <1>6 DEF activity, encounter, dungeon

\* The object tells what the Activity property does, and nothing else.
THEOREM ObjectTellsAll == ObserverSpec => []ObjectTellsTheBag
<1>1. ObserverInv => ObjectTellsTheBag
  <2> SUFFICES ASSUME ObserverInv, published.activity # None PROVE ObjectTellsTheBag
    BY DEF ObjectTellsTheBag
  <2> DEFINE run == published.activity
             bag == BagOf(run)
             object == Snapshot(run)
             names == UNION {DOMAIN object[i] : i \in DOMAIN object}
  <2>1. run \in Encounters \/ run \in Dungeons
    BY DEF ObserverInv, Runs
  <2>2. DOMAIN object = InterfacesOf(run) /\ \A i \in DOMAIN object : object[i] = propertiesOf(i, bag)
    BY DEF Snapshot
  <2>3. /\ propertiesOf("Activity", bag) = activityInterfaceProperties(bag)
        /\ propertiesOf("Activity.Encounter", bag) = encounterInterfaceProperties(bag)
        /\ propertiesOf("Activity.Dungeon", bag) = dungeonInterfaceProperties(bag)
    BY DEF propertiesOf
  <2> HIDE DEF run, bag, object
  <2>4. /\ DOMAIN bag = {KeyOf[name] : name \in names \cap DOMAIN KeyOf}
        /\ \A i \in DOMAIN object : Tell(object[i], bag)
    <3>1. CASE run \in Encounters
      <4>1. DOMAIN object = {"Activity", "Activity.Encounter"}
        BY <2>2, <3>1, InterfacesOfRuns DEF EncounterInterfaces
      <4>2. names = DOMAIN activityInterfaceProperties(bag)
                      \cup DOMAIN encounterInterfaceProperties(bag)
        BY <2>2, <2>3, <4>1
      <4> HIDE DEF names
      <4> QED
        BY <2>2, <2>3, <3>1, <4>1, <4>2, EncounterTells, KeysOfNames DEF bag
    <3>2. CASE run \in Dungeons
      <4>1. DOMAIN object = {"Activity", "Activity.Dungeon"}
        BY <2>2, <3>2, InterfacesOfRuns DEF DungeonInterfaces
      <4>2. names = DOMAIN activityInterfaceProperties(bag)
                      \cup DOMAIN dungeonInterfaceProperties(bag)
        BY <2>2, <2>3, <4>1
      <4> HIDE DEF names
      <4> QED
        BY <2>2, <2>3, <3>2, <4>1, <4>2, DungeonTells, KeysOfNames DEF bag
    <3> QED
      BY <2>1, <3>1, <3>2
  <2> QED
    BY <2>4 DEF ObjectTellsTheBag, Tell, Otherwise, run, bag, object
<1> QED
  BY <1>1, ObserverInvariant, PTL

\* A dungeon that is shown is of a level that is tracked.
LevelTracked(activity) == activity \in Dungeons => activity.level >= MinKeystoneLevel

\* A dungeon is started only at a level that is tracked.
LEMMA StartedIsTracked ==
  ASSUME IInv, Next
  PROVE  LevelTracked(emitted'.started)
<1>1. ASSUME NEW l \in EncounterStartLines, HandleEncounterStart(l)
      PROVE  LevelTracked(emitted'.started)
  <2>1. /\ emitted'.started = (IF TrackedEncounter(l) THEN EncounterOf(l) ELSE None)
        /\ EncounterOf(l) \in Encounters
    BY <1>1, EncounterStartEmits DEF HandleEncounterStart, Emit, NoEmission
  <2> QED
    BY <2>1, RunKinds DEF LevelTracked
<1>2. ASSUME NEW l \in ChallengeModeStartLines, HandleChallengeModeStart(l)
      PROVE  LevelTracked(emitted'.started)
  <2>1. emitted'.started = (IF TrackedDungeon(l) THEN DungeonOf(l) ELSE None)
    BY <1>2 DEF HandleChallengeModeStart, Emit, NoEmission
  <2> QED
    BY <2>1, RunKinds DEF LevelTracked, TrackedDungeon, DungeonOf
<1>3. ASSUME emitted'.started = None
      PROVE  LevelTracked(emitted'.started)
  BY <1>3, RunKinds DEF LevelTracked
<1>4. \/ \E l \in EncounterStartLines : HandleEncounterStart(l)
      \/ \E l \in ChallengeModeStartLines : HandleChallengeModeStart(l)
      \/ emitted'.started = None
  BY DEF Next, OnLineReceived, HandleEncounterEnd, HandleChallengeModeEnd, HandleMapChange,
     HandleZoneChange, IgnoreLine, OnOverrunElapsed, OnDungeonOverrunElapsed, Emit, NoEmission
<1> QED
  BY <1>1, <1>2, <1>3, <1>4

\* So it is in every reachable state.
LEMMA LevelInvariant == ObserverSpec => []LevelTracked(published.activity)
<1>1. ObserverInit => LevelTracked(published.activity)
  BY RunKinds DEF ObserverInit, LevelTracked
<1>2. ObserverInv /\ LevelTracked(published.activity) /\ [ObserverNext]_observerVars
        => LevelTracked(published.activity)'
  <2>1. CASE UNCHANGED observerVars
    BY <2>1 DEF observerVars, LevelTracked
  <2>2. ASSUME ObserverInv, LevelTracked(published.activity), ObserverNext
        PROVE  LevelTracked(published'.activity)
    <3>1. LevelTracked(emitted'.started)
      BY <2>2, StartedIsTracked DEF ObserverInv, ObserverNext
    <3>2. LevelTracked(None)
      BY RunKinds DEF LevelTracked
    <3>3. published'.activity \in {emitted'.started, None, published.activity}
      BY <2>2, PublishEffect
    <3> QED
      BY <2>2, <3>1, <3>2, <3>3
  <2> QED
    BY <2>1, <2>2
<1> QED
  BY <1>1, <1>2, ObserverInvariant, PTL DEF ObserverSpec

\* The name a place is given survives the bus, whichever kind of name it is.
LEMMA NameSurvives ==
  ASSUME NEW loc \in Locations
  PROVE  displayName(fromVariantMap(toVariantMap(loc))) = displayName(loc)
<1> DEFINE map == toVariantMap(loc)
           name == displayName(loc)
<1>1. name \in ZoneNames \cup {m.name : m \in UiMaps} \cup {Unnamed}
  BY DEF displayName, Locations
<1>2. [name |-> name, difficultyId |-> 0] # None
  <2> HIDE DEF name
  <2> QED
    BY <1>1, ZoneAssumption
<1>3. map.zoneName = name
  <2>1. CASE loc.uiMap = None /\ loc.zone = None
    BY <2>1 DEF toVariantMap, EmptyMap, displayName
  <2>2. CASE ~(loc.uiMap = None /\ loc.zone = None)
    BY <2>2 DEF toVariantMap
  <2> QED
    BY <2>1, <2>2
<1> HIDE DEF map, name
<1>4. CASE map = EmptyMap
  <2>1. name = Unnamed
    BY <1>3, <1>4 DEF EmptyMap
  <2>2. displayName(fromVariantMap(map)) = Unnamed
    BY <1>4 DEF fromVariantMap, displayName
  <2> QED
    BY <2>1, <2>2 DEF map, name
<1>5. CASE map # EmptyMap
  <2> DEFINE there == fromVariantMap(map)
  <2>1. /\ there.zone = [name |-> name, difficultyId |-> 0]
        /\ there.uiMap = [id |-> map.uiMapId, name |-> Unnamed]
    BY <1>3, <1>5 DEF fromVariantMap
  <2> HIDE DEF there
  <2>2. displayName(there) = name
    BY <1>2, <2>1 DEF displayName
  <2> QED
    BY <2>2 DEF there, map, name
<1> QED
  BY <1>4, <1>5

\* The words that name a run, from its bag.
LEMMA TextNamesRun ==
  ASSUME NEW run \in Runs, LevelTracked(run)
  PROVE  activityText(BagOf(run)) =
           IF run.kind = "dungeon" THEN <<"Mythic+", run.level>>
           ELSE <<raidDifficultyDisplayName(run.difficultyId), EncounterNames[run.id]>>
<1> DEFINE bag == BagOf(run)
<1>1. bag # None
  BY BagAssumption
<1>2. CASE run \in Encounters
  <2> DEFINE difficulty == raidDifficultyDisplayName(run.difficultyId)
  <2>1. bag = fromEncounter(run) /\ run.kind = "encounter"
    BY <1>2, RunKinds DEF BagOf
  <2>2. /\ {"type", "difficulty", "encounterName"} \subseteq DOMAIN bag
        /\ bag["type"] = Str("encounter")
        /\ bag["difficulty"] = Str(difficulty)
        /\ bag["encounterName"] = Str(EncounterNames[run.id])
    BY <2>1 DEF fromEncounter
  <2> HIDE DEF bag, difficulty
  <2>3. /\ Read(bag, "difficulty", "s")[2] = difficulty
        /\ Read(bag, "encounterName", "s")[2] = EncounterNames[run.id]
        /\ isEncounter(bag)
    BY <2>2, ReadIs DEF Str, isEncounter
  <2>4. activityText(bag) = <<difficulty, EncounterNames[run.id]>>
    BY <1>1, <2>3 DEF activityText
  <2> QED
    BY <2>1, <2>4 DEF bag, difficulty
<1>3. CASE run \in Dungeons
  <2>1. bag = fromDungeon(run) /\ run.kind = "dungeon" /\ run.level \in KeystoneLevels
    BY <1>3, RunKinds DEF BagOf, Dungeons
  <2>2. /\ {"type", "keystoneLevel"} \subseteq DOMAIN bag
        /\ bag["type"] = Str("dungeon")
        /\ bag["keystoneLevel"] = UInt(run.level)
    BY <2>1 DEF fromDungeon
  <2>3. run.level \in 0 .. IntMax
    <3> DEFINE l == run.level
    <3>1. l \in -(IntMax + 1) .. IntMax /\ l >= MinKeystoneLevel
      BY <1>3, <2>1, LevelAssumption DEF LevelTracked
    <3> HIDE DEF l
    <3>2. l \in 0 .. IntMax
      BY <3>1, LevelAssumption, TrackerAssumption
    <3> QED
      BY <3>2 DEF l
  <2>4. run.level % (2 * IntMax + 2) = run.level
    <3> DEFINE l == run.level
    <3>1. l \in 0 .. IntMax
      BY <2>3
    <3> HIDE DEF l
    <3>2. l % (2 * IntMax + 2) = l
      BY <3>1, TrackerAssumption
    <3> QED
      BY <3>2 DEF l
  <2>5. UInt(run.level) = <<"u", run.level>>
    BY <2>4, Zenon DEF UInt
  <2> HIDE DEF bag
  <2>6. Read(bag, "keystoneLevel", "u")[2] = run.level
    BY <2>2, <2>5, ReadIs
  <2>7. isDungeon(bag) /\ ~isEncounter(bag)
    BY <2>2, ReadIs DEF Str, isDungeon, isEncounter
  <2>8. activityText(bag) = <<"Mythic+", run.level>>
    BY <1>1, <2>6, <2>7 DEF activityText, bag
  <2> QED
    BY <2>1, <2>8 DEF bag
<1> QED
  BY <1>2, <1>3 DEF Runs

\* What constellarctl prints names the run and the place the daemon is at.
THEOREM StatusIsTrue == ObserverSpec => []StatusNamesTheState
<1>1. ObserverInv /\ ViewInv /\ LevelTracked(published.activity) => StatusNamesTheState
  <2> SUFFICES ASSUME ObserverInv, ViewInv, LevelTracked(published.activity)
               PROVE  StatusNamesTheState
    OBVIOUS
  <2> DEFINE run == published.activity
             text == IF run = None THEN <<"none">>
                     ELSE IF run.kind = "dungeon" THEN <<"Mythic+", run.level>>
                     ELSE <<raidDifficultyDisplayName(run.difficultyId),
                            EncounterNames[run.id]>>
  <2>1. activityText(BagOf(run)) = text
    <3>1. CASE run = None
      BY <3>1, BagsDiffer DEF activityText
    <3>2. CASE run # None
      <4>1. run \in Runs
        BY <3>2 DEF ObserverInv
      <4> QED
        BY <3>2, <4>1, TextNamesRun
    <3> QED
      BY <3>1, <3>2
  <2>2. displayName(fromVariantMap(toVariantMap(published.location)))
          = displayName(published.location)
    BY NameSurvives DEF ViewInv
  <2> HIDE DEF run, text
  <2>3. runStatus(published) = [activity |-> text, location |-> displayName(published.location)]
    BY <2>1, <2>2 DEF runStatus, run
  <2> QED
    BY <2>3 DEF StatusNamesTheState, run, text
<1> QED
  BY <1>1, LevelInvariant, ViewInvariant, PTL
=============================================================================
