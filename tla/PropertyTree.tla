---------------------------- MODULE PropertyTree ----------------------------
(***************************************************************************)
(* How clients read the daemon: the property tree under /activity          *)
(* (daemon/observer/dbus/PropertyTreeObject, InterfaceRegistry), the       *)
(* ObjectManager's GetManagedObjects, and constellarctl (cli), as          *)
(* functions of the published state.                                       *)
(*                                                                         *)
(* The daemon answers between two lines, so a reply is about one state.    *)
(* There are several ways to read one object, each with its own code: they *)
(* share the projection of the bag, but the registry's XML decides what is *)
(* a property, and of which type, for some of them only.                   *)
(***************************************************************************)
EXTENDS ObserverService

-----------------------------------------------------------------------------
(* InterfaceRegistry: the contract's interfaces, and the type of each      *)
(* property.  All of them are read-only.  The ObjectManager, which has no  *)
(* properties, is left out.                                                *)

m_interfaces ==
  [interface \in {"Observer", "Activity", "Activity.Encounter", "Activity.Dungeon", "Recording"} |->
     CASE interface = "Observer" -> [Activity |-> "a{sv}", Location |-> "a{sv}"]
       [] interface = "Activity" ->
            [Type |-> "s", StartTime |-> "x", StopTime |-> "x", Outcome |-> "s",
             Recording |-> "o"]
       [] interface = "Activity.Encounter" ->
            [EncounterId |-> "u", EncounterName |-> "s", Difficulty |-> "s",
             DifficultyId |-> "u"]
       [] interface = "Activity.Dungeon" ->
            [ZoneId |-> "u", KeystoneLevel |-> "u", ChallengeMapId |-> "u",
             DurationMs |-> "x"]
       [] interface = "Recording" ->
            [Path |-> "s", State |-> "s", DurationMs |-> "x", Activities |-> "ao"]]

standardInterfaces == {"Properties", "Introspectable", "Peer"}

-----------------------------------------------------------------------------
(* PropertyTreeObject. *)

Paths == {"/", "/activity", "/activity/current", "/activity/other"}

resolve(p, path) == IF path = "/activity/current" THEN Snapshot(p.activity) ELSE NoObject

\* A QVariant that is no value of any type.
Invalid == <<"invalid", 0>>

valueOf(bag, name) == IF name \in DOMAIN bag THEN bag[name] ELSE Invalid

\* QVariant's toLongLong, toUInt and toString, and an object path of the last;
\* what does not convert is zero or empty.
Converted(signature, value) ==
  IF {signature, value[1]} \subseteq {"u", "x"}
  THEN IF signature = "u" THEN UInt(value[2]) ELSE Int64(value[2])
  ELSE <<signature, IF {signature, value[1]} \subseteq {"s", "o"}
                    THEN value[2] ELSE Default(signature)>>

coerceValue(signature, value) ==
  IF signature \in {"x", "u", "s", "o"} /\ value[1] # signature
  THEN Converted(signature, value) ELSE value

coerceBag(interface, bag) ==
  [name \in DOMAIN m_interfaces[interface] |->
     coerceValue(m_interfaces[interface][name], valueOf(bag, name))]

Calls ==
  LET names == UNION {DOMAIN m_interfaces[i] : i \in DOMAIN m_interfaces} IN
  {call \in [path : {"/activity/current", "/activity/other"},
             member : {"Get", "GetAll", "Set"},
             interface : DOMAIN m_interfaces \cup {"Other"},
             property : names \cup {"none"}] :
     call.member = "GetAll" <=> call.property = "none"}

Error(name) == [error |-> name, value |-> Invalid]
Reply(value) == [error |-> "none", value |-> value]

\* The first thing that is missing names the error; GetAll has no property to miss.
handleProperties(p, call) ==
  LET snapshot == resolve(p, call.path)
      interface == call.interface
  IN IF snapshot = NoObject THEN Error("UnknownObject")
     ELSE IF interface \notin DOMAIN snapshot THEN Error("UnknownInterface")
     ELSE IF call.member = "GetAll" THEN Reply(coerceBag(interface, snapshot[interface]))
     ELSE IF call.property \notin DOMAIN m_interfaces[interface] THEN Error("UnknownProperty")
     ELSE IF call.member = "Set" THEN Error("PropertyReadOnly")
     ELSE Reply(coerceValue(m_interfaces[interface][call.property],
                            valueOf(snapshot[interface], call.property)))

\* Introspection: the child nodes of the parent, the interfaces of the object
\* with their properties.
introspectionXmlFor(p, path) ==
  [nodes |-> IF path = "/activity" /\ resolve(p, "/activity/current") # NoObject
             THEN {"current"} ELSE {},
   standard |-> IF resolve(p, path) = NoObject THEN {} ELSE standardInterfaces,
   interfaces |-> [i \in DOMAIN resolve(p, path) \cap DOMAIN m_interfaces |->
                     m_interfaces[i]]]

\* ObjectManagerAdaptor: no coercion here.
GetManagedObjects(p) ==
  LET object == resolve(p, "/activity/current")
  IN  [path \in {"/"} \cup (IF object = NoObject THEN {} ELSE {"/activity/current"}) |->
         IF path = "/"
         THEN [Observer |-> [Activity |-> BagOf(p.activity),
                             Location |-> toVariantMap(p.location)]]
         ELSE object]

-----------------------------------------------------------------------------
(* constellarctl status. *)

\* Activity::fromVariantMap and toString: the words that name a run.
activityText(bag) ==
  IF bag = None THEN <<"none">>
  ELSE IF isEncounter(bag) THEN <<Read(bag, "difficulty", "s")[2],
                                  Read(bag, "encounterName", "s")[2]>>
  ELSE IF isDungeon(bag) THEN <<"Mythic+", Read(bag, "keystoneLevel", "u")[2]>>
  ELSE <<"none">>

\* Both properties in one state; status reads them by two calls.
runStatus(p) ==
  [activity |-> activityText(BagOf(p.activity)),
   location |-> displayName(fromVariantMap(toVariantMap(p.location)))]

-----------------------------------------------------------------------------
(* Properties. *)

\* However a client reads the activity object, it reads the same: Get and
\* GetAll answer with what GetManagedObjects holds, of the contract's types
\* though only they coerce; introspection lists what they answer for, the
\* parent lists the object while there is one, and whatever is not there, or
\* is a Set, is an error (which one is not compared).
ReadersAgree ==
  LET objects == GetManagedObjects(published)
      Object(path) == IF path \in DOMAIN objects THEN objects[path] ELSE NoObject
  IN /\ \A call \in Calls :
          LET object == Object(call.path)
              served == valueOf(object, call.interface)
          IN handleProperties(published, call).value =
               IF call.interface \notin DOMAIN object \/ call.member = "Set" THEN Invalid
               ELSE IF call.member = "GetAll" THEN served
               ELSE valueOf(served, call.property)
     /\ \A path \in Paths \ {"/"} :
          LET listed == introspectionXmlFor(published, path) IN
          /\ DOMAIN listed.interfaces = DOMAIN Object(path)
          /\ \A i \in DOMAIN listed.interfaces :
               DOMAIN listed.interfaces[i] = DOMAIN Object(path)[i]
          /\ "current" \in listed.nodes <=>
               path = "/activity" /\ "/activity/current" \in DOMAIN objects

KeyOf == [Type |-> "type", StartTime |-> "startTime", EncounterId |-> "encounterId",
          EncounterName |-> "encounterName", Difficulty |-> "difficulty",
          DifficultyId |-> "difficultyId", ZoneId |-> "zoneId",
          KeystoneLevel |-> "keystoneLevel", ChallengeMapId |-> "challengeMapId"]

\* The object tells all the Activity property tells, each key under its own
\* name and type, and is an activity in progress otherwise: keys, projection
\* and contract have not drifted apart.
ObjectTellsTheBag ==
  LET bag == BagOf(published.activity)
      object == Snapshot(published.activity)
      names == UNION {DOMAIN object[i] : i \in DOMAIN object}
  IN published.activity # None =>
       /\ DOMAIN bag = {KeyOf[name] : name \in names \cap DOMAIN KeyOf}
       /\ \A i \in DOMAIN object : \A name \in DOMAIN object[i] :
            object[i][name] = IF name \in DOMAIN KeyOf THEN bag[KeyOf[name]]
                              ELSE IF name = "Outcome" THEN Str("unknown")
                              ELSE IF name = "Recording" THEN ObjectPath("/")
                              ELSE Int64(0)

\* What constellarctl prints names the run and the place the daemon is at,
\* although the place crosses the bus as a map with the name resolved
\* (LocationTest, "locationRoundTripsThroughWire").
StatusNamesTheState ==
  runStatus(published) =
    [activity |-> IF published.activity = None THEN <<"none">>
                  ELSE IF published.activity.kind = "dungeon"
                  THEN <<"Mythic+", published.activity.level>>
                  ELSE <<raidDifficultyDisplayName(published.activity.difficultyId),
                         EncounterNames[published.activity.id]>>,
     location |-> displayName(published.location)]
=============================================================================
