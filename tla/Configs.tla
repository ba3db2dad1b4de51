------------------------------ MODULE Configs -------------------------------
(***************************************************************************)
(* The config of a subscription, which three programs read: the form of    *)
(* the web client sends it, the schemas of the API server accept or refuse *)
(* it and store what they know of it, and the jobs of the bot use it.      *)
(*                                                                         *)
(* A time of day is its second and how ISO 8601 writes it: "plain" as      *)
(* HH:MM or HH:MM:SS, "fraction" with half a second more, "zone" with a    *)
(* zone, the same wherever there is one.                                   *)
(***************************************************************************)
EXTENDS Integers

CONSTANTS Stations,  \* names of stations ("" included, if a client sends it)
          Seconds    \* seconds of the day

Day == 24 * 60 * 60

ASSUME SecondsAssumption == Seconds \subseteq 0..Day - 1

Types      == {"TRANSIT", "LUNCH", "LIBRARY"}
Lines      == {"line 2", "line 4", "other"}  \* a loop, a straight one, one not in Known
Directions == {"up", "down", "inner", "outer"}
Rooms      == {0, 1, 2, 3, 5}
Null       == -1

Time == [at : Seconds, form : {"plain", "fraction", "zone"}]

\* What a body may say, whichever type and mode it is for.
Body == [type : Types, mode : {"arrival", "recurring"}, station_name : Stations, line : Lines,
         direction : Directions, start_time : Time, end_time : Time, minutes_before : Int,
         repeat_interval_minutes : Int, notify_at : Time, max_price : Int,
         recommend_count : Int, reading_room_id : Int, threshold : Int,
         urgent_threshold : Int]

-----------------------------------------------------------------------------
(* RuleEditModal of the web client.                                        *)

directionOptionsForLine(line) == IF line = "line 2" THEN {"inner", "outer"} ELSE {"up", "down"}

\* normalizeConfig: a direction the line does not have becomes its first one.
normalizeConfig(body) ==
  IF body.direction \in directionOptionsForLine(body.line) THEN body
  ELSE [body EXCEPT !.direction = IF body.line = "line 2" THEN "inner" ELSE "up"]

\* defaultConfig, of a form that was opened for a new rule.
defaultConfig(type, station, seconds) ==
  [type |-> type, mode |-> "arrival", station_name |-> station, line |-> "line 2",
   direction |-> "inner", start_time |-> [at |-> seconds[1], form |-> "plain"],
   end_time |-> [at |-> seconds[2], form |-> "plain"], minutes_before |-> 3,
   repeat_interval_minutes |-> 15, notify_at |-> [at |-> seconds[1], form |-> "plain"],
   max_price |-> Null, recommend_count |-> 3, reading_room_id |-> 1, threshold |-> 20,
   urgent_threshold |-> Null]

-----------------------------------------------------------------------------
(* The schemas of the API server.                                          *)

\* Half seconds since midnight.
Instant(time) == 2 * time.at + IF time.form = "fraction" THEN 1 ELSE 0

\* Mutant of StartBeforeEnd: equal times pass.
StartNotAfterEnd(body) == Instant(body.start_time) <= Instant(body.end_time)

\* _start_before_end; Python compares no time with a zone to one without.
StartBeforeEnd(body) == /\ Instant(body.start_time) < Instant(body.end_time)
                        /\ body.start_time.form = "zone" <=> body.end_time.form = "zone"

TransitAccepted(body) ==
  /\ body.station_name # ""
  /\ StartBeforeEnd(body)
  /\ IF body.mode = "arrival" THEN body.minutes_before \in 1..120
                              ELSE body.repeat_interval_minutes \in 1..180

LunchAccepted(body) == /\ body.max_price = Null \/ body.max_price >= 0
                       /\ body.recommend_count \in 1..10

\* _urgent_lt_threshold among them.
LibraryAccepted(body) ==
  /\ body.reading_room_id \in Rooms
  /\ body.threshold >= 0
  /\ body.urgent_threshold = Null \/ body.urgent_threshold \in 0..body.threshold - 1

\* Anything else is answered by 422.
Accepted(body) == \/ body.type = "TRANSIT" /\ TransitAccepted(body)
                  \/ body.type = "LUNCH" /\ LunchAccepted(body)
                  \/ body.type = "LIBRARY" /\ LibraryAccepted(body)

\* model_dump: the fields the schema of the type and mode declares.
Dumped(body) ==
  CASE body.type = "TRANSIT" /\ body.mode = "arrival" ->
         [mode |-> "arrival", station_name |-> body.station_name, line |-> body.line,
          direction |-> body.direction, start_time |-> body.start_time,
          end_time |-> body.end_time, minutes_before |-> body.minutes_before]
    [] body.type = "TRANSIT" /\ body.mode = "recurring" ->
         [mode |-> "recurring", station_name |-> body.station_name, line |-> body.line,
          start_time |-> body.start_time, end_time |-> body.end_time,
          repeat_interval_minutes |-> body.repeat_interval_minutes]
    [] body.type = "LUNCH" ->
         [notify_at |-> body.notify_at, max_price |-> body.max_price,
          recommend_count |-> body.recommend_count]
    [] body.type = "LIBRARY" ->
         [reading_room_id |-> body.reading_room_id, threshold |-> body.threshold,
          urgent_threshold |-> body.urgent_threshold]

-----------------------------------------------------------------------------
(* The jobs of the bot.                                                    *)

\* _parse_config_time and _parse_notify_at know HH:MM:SS and HH:MM only.
Readable(time) == time.form = "plain"

\* The length of the window of a transit subscription: a bound that cannot
\* be read is none.
Length(config) == (IF Readable(config.end_time) THEN config.end_time.at ELSE Day)
                  - (IF Readable(config.start_time) THEN config.start_time.at ELSE 0)

Trigger == 5  \* seconds between two ticks of the job

Known == {"line 2", "line 4"}  \* _SUBWAY_ID_TO_LINE

\* Trains of this line and direction are among the arrivals.
HasTrains(config) == /\ config.line \in Known
                     /\ config.direction \in directionOptionsForLine(config.line)

\* What a job needs and the schemas check: a window of some length, a lead
\* time or an interval (a zero one would send with every tick), something to
\* recommend, a number of free seats to warn of.
Checked(type, config) ==
  CASE type = "TRANSIT" ->
         /\ Length(config) > 0
         /\ IF config.mode = "arrival" THEN config.minutes_before > 0
                                       ELSE config.repeat_interval_minutes > 0
    [] type = "LUNCH" -> config.recommend_count > 0
    [] type = "LIBRARY" ->
         /\ config.reading_room_id \in Rooms
         /\ \E seats \in 0..config.threshold :
              config.urgent_threshold = Null \/ seats > config.urgent_threshold

\* What a job needs and no schema checks: a window with a tick of the
\* trigger whatever its phase, a line with this direction, a time of the
\* lunch that can be read.
Unchecked(type, config) ==
  CASE type = "TRANSIT" ->
         Length(config) >= Trigger /\ (config.mode = "arrival" => HasTrains(config))
    [] type = "LUNCH" -> Readable(config.notify_at)
    [] type = "LIBRARY" -> TRUE

\* The job has something to send.
Works(type, config) == Checked(type, config) /\ Unchecked(type, config)
=============================================================================
