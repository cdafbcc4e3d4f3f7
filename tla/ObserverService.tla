--------------------------- MODULE ObserverService ---------------------------
(***************************************************************************)
(* The daemon from the tracker's signals to what its clients see: the      *)
(* slots ObserverService connects (daemon/observer), GameState             *)
(* (daemon/gamestate), the two D-Bus publishers (daemon/observer/dbus) and *)
(* the hand-off to Discord presence (daemon/presence).                     *)
(*                                                                         *)
(* Every connection is a direct call, so one tracker step runs all of it:  *)
(* React applies to the published state, in order, each signal the step    *)
(* emitted.  Slots of one signal run in the order main() connects them:    *)
(* ObserverDBusAdaptor, ObjectTreePublisher, PresencePublisher.            *)
(*                                                                         *)
(* mirror is what a D-Bus client knows that subscribed before the first    *)
(* signal and has processed every signal so far.                           *)
(*                                                                         *)
(* GameState keeps the activity's bag; here it is the run the bag is of.   *)
(***************************************************************************)
EXTENDS ActivityProjection, SequencesExt

CONSTANTS Unnamed      \* the empty zone name

VARIABLES
  published,           \* GameState, the object tree, this step's D-Bus signals, and,
                       \* as a history, the run last reported as ended
  mirror               \* a client's view, folded from the signals alone

observerVars == <<trackerVars, published, mirror>>

\* The sentinel is no zone, whatever name the place is given.
ASSUME ZoneAssumption ==
  \A name \in ZoneNames \cup {map.name : map \in UiMaps} \cup {Unnamed} :
    [name |-> name, difficultyId |-> 0] # None

EmptyMap == [zoneName |-> Unnamed, zoneCategory |-> None, uiMapId |-> None]

-----------------------------------------------------------------------------
(* Location. *)

zoneCategory(difficultyId) ==
  CASE difficultyId = 0 -> "open-world"
    [] difficultyId \in {1, 2, 23, 24} -> "dungeon"
    [] difficultyId \in {14, 15, 16, 17} -> "raid"
    [] difficultyId = 208 -> "delve"
    [] OTHER -> "unknown"

displayName(loc) ==
  IF loc.zone # None /\ loc.zone.name # Unnamed THEN loc.zone.name
  ELSE IF loc.uiMap # None THEN loc.uiMap.name
  ELSE Unnamed

toVariantMap(loc) ==
  IF loc.uiMap = None /\ loc.zone = None THEN EmptyMap
  ELSE [zoneName |-> displayName(loc),
        zoneCategory |-> IF loc.zone = None THEN "unknown"
                                            ELSE zoneCategory(loc.zone.difficultyId),
        uiMapId |-> IF loc.uiMap = None THEN 0 ELSE loc.uiMap.id]

\* Mutant of fromVariantMap: the zone is restored without its name.
fromVariantMapUnnamed(map) ==
  [uiMap |-> IF map = EmptyMap THEN None ELSE [id |-> map.uiMapId, name |-> Unnamed],
   zone |-> IF map = EmptyMap THEN None ELSE [name |-> Unnamed, difficultyId |-> 0]]

\* The name comes back as the zone's, whichever it was.
fromVariantMap(map) ==
  [uiMap |-> IF map = EmptyMap THEN None ELSE [id |-> map.uiMapId, name |-> Unnamed],
   zone |-> IF map = EmptyMap THEN None ELSE [name |-> map.zoneName, difficultyId |-> 0]]

-----------------------------------------------------------------------------
(* What is derived from the published activity. *)

NoObject == [interface \in {} |-> None]

\* Mutant of InterfacesOf: the root object's interface comes along.
InterfacesOfSubtree(activity) ==
  IF activity = None THEN {} ELSE {"Activity", "ObjectManager"}

\* resolve(): the interfaces of the activity object.
InterfacesOf(activity) ==
  LET bag == BagOf(activity) IN
  IF activity = None THEN {}
  ELSE IF isEncounter(bag) THEN {"Activity", "Activity.Encounter"}
  ELSE IF isDungeon(bag) THEN {"Activity", "Activity.Dungeon"}
  ELSE {"Activity"}

propertiesOf(interface, bag) ==
  CASE interface = "Activity" -> activityInterfaceProperties(bag)
    [] interface = "Activity.Encounter" -> encounterInterfaceProperties(bag)
    [] interface = "Activity.Dungeon" -> dungeonInterfaceProperties(bag)
    [] OTHER -> NoObject

Snapshot(activity) ==
  [interface \in InterfacesOf(activity) |-> propertiesOf(interface, BagOf(activity))]

\* The Discord presence: a dungeon hides the zone, an encounter shows it.
activityFor(activity, locationMap) ==
  [run |-> activity,
   zone |-> IF activity # None /\ activity.kind = "dungeon"
            THEN Unnamed ELSE displayName(fromVariantMap(locationMap))]

-----------------------------------------------------------------------------
(* The slots, as functions of the published state. *)

Send(p, signal) == [p EXCEPT !.signals = Append(@, signal)]

PropertyChanged(property, value) ==
  [signal |-> "PropertiesChanged", property |-> property, value |-> value]

updatePresence(p) ==
  [p EXCEPT !.presence = activityFor(p.activity, toVariantMap(p.location))]

activityAppeared(p) ==
  IF p.live \/ p.activity = None THEN p
  ELSE Send([p EXCEPT !.live = TRUE, !.announced = InterfacesOf(p.activity)],
            [signal |-> "InterfacesAdded", interfaces |-> Snapshot(p.activity)])

\* Mutant of activityDisappeared: m_activityLive is not reset.
activityDisappearedStaysLive(p) ==
  IF ~p.live THEN p
  ELSE Send(p, [signal |-> "InterfacesRemoved", interfaces |-> p.announced])

\* Mutant of activityDisappeared: only the kind's own interface is removed.
activityDisappearedInPart(p) ==
  IF ~p.live THEN p
  ELSE [Send(p, [signal |-> "InterfacesRemoved", interfaces |-> p.announced \ {"Activity"}])
        EXCEPT !.live = FALSE, !.announced = {}]

activityDisappeared(p) ==
  IF ~p.live THEN p
  ELSE [(IF p.announced = {} THEN p
         ELSE Send(p, [signal |-> "InterfacesRemoved", interfaces |-> p.announced]))
        EXCEPT !.live = FALSE, !.announced = {}]

\* Mutant of setActivity: going idle is not announced as a property change.
setActivityQuietlyIdle(p, activity) ==
  IF BagOf(p.activity) = BagOf(activity) THEN p
  ELSE updatePresence(activityAppeared(
         IF activity = None THEN [p EXCEPT !.activity = None]
         ELSE Send([p EXCEPT !.activity = activity], PropertyChanged("activity", BagOf(activity)))))

setActivity(p, activity) ==
  IF BagOf(p.activity) = BagOf(activity) THEN p
  ELSE updatePresence(activityAppeared(
         Send([p EXCEPT !.activity = activity], PropertyChanged("activity", BagOf(activity)))))

EndReported(p, stopped) ==
  Send([p EXCEPT !.ended = stopped.run],
       [signal |-> "ActivityEnded", activity |-> EndedBagOf(stopped)])

\* Mutant of endActivity: the end is reported and nothing cleared.
endActivityKeepsActivity(p, stopped) == activityDisappeared(EndReported(p, stopped))

\* Mutant of endActivity: only the end of the activity shown is reported.
endActivityShownOnly(p, stopped) ==
  IF p.activity = stopped.run
  THEN setActivity(activityDisappeared(EndReported(p, stopped)), None) ELSE p

\* Mutant of endActivity: the object goes before its end is reported.
endActivityTooLate(p, stopped) ==
  setActivity(EndReported(activityDisappeared(p), stopped), None)

endActivity(p, stopped) ==
  setActivity(activityDisappeared(EndReported(p, stopped)), None)

\* Mutant of setLocation: PresencePublisher is not told.
setLocationWithoutPresence(p, location) ==
  LET q == [p EXCEPT !.location = location]
  IN  IF toVariantMap(p.location) = toVariantMap(location) THEN q
      ELSE Send(q, PropertyChanged("location", toVariantMap(location)))

setLocation(p, location) ==
  LET q == [p EXCEPT !.location = location]
  IN  IF toVariantMap(p.location) = toVariantMap(location) THEN q
      ELSE updatePresence(Send(q, PropertyChanged("location", toVariantMap(location))))

\* The slots of the signals one tracker step emits: a stop, then a start.
React(p, e) ==
  LET stopped == IF e.stopped = None THEN p ELSE endActivity(p, e.stopped)
      started == IF e.started = None THEN stopped ELSE setActivity(stopped, e.started)
      mapped == IF e.uiMap = None THEN started
                ELSE setLocation(started, [started.location EXCEPT !.uiMap = e.uiMap])
  IN  IF e.zone = None THEN mapped
      ELSE setLocation(mapped, [mapped.location EXCEPT !.zone = e.zone])

-----------------------------------------------------------------------------
(* A client's view. *)

Observe(m, s) ==
  CASE s.signal = "PropertiesChanged" -> [m EXCEPT ![s.property] = s.value]
    [] s.signal = "InterfacesAdded" -> [m EXCEPT !.object = Merged(s.interfaces, @)]
    [] s.signal = "InterfacesRemoved" ->
         [m EXCEPT !.object = Restrict(@, DOMAIN @ \ s.interfaces)]
    [] s.signal = "ActivityEnded" -> m

-----------------------------------------------------------------------------
ObserverInit ==
  /\ Init
  /\ published = [activity |-> None, location |-> [uiMap |-> None, zone |-> None],
                  live |-> FALSE, announced |-> {}, presence |-> None, signals |-> <<>>,
                  ended |-> None]
  /\ mirror = [activity |-> None, location |-> EmptyMap, object |-> NoObject]

Publish ==
  /\ published' = React([published EXCEPT !.signals = <<>>], emitted')
  /\ mirror' = FoldLeft(Observe, mirror, published'.signals)

ObserverNext == Next /\ Publish

ObserverSpec == ObserverInit /\ [][ObserverNext]_observerVars

-----------------------------------------------------------------------------
(* Properties. *)

Interfaces == {"Activity", "Activity.Encounter", "Activity.Dungeon"}

\* Every member keeps its C++ type.
ObserverTypeOK ==
  /\ TypeOK
  /\ published.activity \in Runs \cup {None}
  /\ published.ended \in Runs \cup {None}
  /\ published.location.uiMap \in UiMaps \cup {None}
  /\ published.live \in BOOLEAN
  /\ published.announced \subseteq Interfaces
  /\ DOMAIN mirror.object \subseteq Interfaces

\* The PropertiesChanged signals alone keep a client's copy of the Activity
\* and Location properties equal to what a Get would return, although
\* GameState drops the ones it takes for redundant.
MirrorMatchesProperties ==
  /\ mirror.activity = BagOf(published.activity)
  /\ mirror.location = toVariantMap(published.location)

\* The activity object exists for ObjectManager clients exactly while the
\* Activity property is set, over every restart, displacement and untracked
\* pull: m_activityLive, m_activityInterfaces and GameState agree.
ObjectExistsWhilePublished ==
  /\ published.live <=> published.activity # None
  /\ published.announced # {} <=> published.live

\* The object a client assembles from InterfacesAdded and InterfacesRemoved is
\* the one GetManagedObjects would give it, every property of it, as long as
\* it is of the kind announced: nothing is left of an earlier object.
AnnouncedObjectIsServed ==
  /\ DOMAIN mirror.object = published.announced
  /\ published.announced = InterfacesOf(published.activity) =>
       mirror.object = Snapshot(published.activity)

\* Whatever is published is a run the tracker still follows and will stop:
\* nothing stays published after its stop signal.
PublishedRunIsTracked ==
  published.activity # None =>
    \/ active /\ published.activity = current
    \/ dungeonActive /\ published.activity = currentDungeon

\* A client learns how an activity ended before its object goes, and its
\* object goes before the next one appears
\* (ObjectTreePublisherTest, "ActivityEnded precedes InterfacesRemoved").
EndPrecedesRemoval ==
  LET s == published.signals IN
  \A i \in DOMAIN s :
    /\ s[i].signal = "InterfacesRemoved" =>
         \E j \in 1 .. i - 1 : s[j].signal = "ActivityEnded"
    /\ s[i].signal = "InterfacesAdded" =>
         ~\E j \in i + 1 .. Len(s) : s[j].signal \in {"ActivityEnded", "InterfacesRemoved"}

\* Discord was last handed the presence of the state as it is now: no change
\* of activity or location leaves an older presence behind.
PresenceIsCurrent ==
  published.presence # None =>
    published.presence = activityFor(published.activity, toVariantMap(published.location))

\* The Activity property is "the player's current instanced activity.  Empty
\* when idle": a dungeon in progress is what it shows.
LiveDungeonIsPublished == dungeonActive => published.activity = currentDungeon

\* The object a client assembles from InterfacesAdded and InterfacesRemoved
\* has the interfaces GetManagedObjects gives it: Activity.Encounter "only on
\* activity objects of kind encounter".
AnnouncedInterfacesAreServed == DOMAIN mirror.object = InterfacesOf(published.activity)

OpenRuns ==
  [slot \in {"encounter", "dungeon"} |->
     IF slot = "encounter" THEN IF active THEN current ELSE None
     ELSE IF dungeonActive THEN currentDungeon ELSE None]

Published == INSTANCE PublishedActivity WITH
  open <- OpenRuns,
  activity <- published.activity,
  lastEnded <- published.ended

\* The tracker, GameState and the publishers together show a client what
\* PublishedActivity says: each run that begins is shown, each that ends is
\* reported, as itself, and in the order the slots empty and fill.
ShowsRuns == Published!Spec
=============================================================================
