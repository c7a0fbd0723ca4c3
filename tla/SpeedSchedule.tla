---------------------------- MODULE SpeedSchedule ----------------------------
(***************************************************************************)
(* session.c: the session's speed limits, the alternative ones ("turtle     *)
(* mode") that the user or a weekly schedule turns on, and the settings that *)
(* are toggled in the event thread.  What is posted to that thread is done    *)
(* later, unless the caller is in it.                                         *)
(***************************************************************************)
EXTENDS Naturals, FiniteSets

CONSTANTS MinutesPerDay, DaysPerWeek,   \* 1440 and 7 in the code
          Speeds,                       \* values of the limits; 0 is no limit
          MaxSettings                   \* calls that change a setting
ASSUME ScheduleAssumption == {MinutesPerDay, DaysPerWeek} \subseteq Nat \ {0} /\ MaxSettings \in Nat

MinutesPerWeek == MinutesPerDay * DaysPerWeek

VARIABLES
    turtle,     \* tr_turtle_info: days, begin, end, clock, on, byUser, auto, table
    minute,     \* the minute of the week
    limits,     \* limits[m]: the limit in each mode, and whether the primary one is used
    bandwidth,  \* what tr_bandwidth was told: limited, speed
    flags,      \* a setting that is toggled, such as isDHTEnabled; and what was asked for
    posted,     \* what waits in the event thread's pipe, and whether toggles overlapped
    settings    \* calls so far
schedVars == <<turtle, minute, limits, bandwidth, flags, posted, settings>>
SetsOne == settings < MaxSettings /\ settings' = settings + 1

(* Mutant: an end before the begin is not in the next day *)
Covered_SameDay(day, begin, end) == {(m + day * MinutesPerDay) % MinutesPerWeek : m \in begin..(end - 1)}
(* turtleUpdateTable; an end that is not after the begin is in the next day *)
Covered(day, begin, end) ==
    {(m + day * MinutesPerDay) % MinutesPerWeek :
        m \in begin..((IF end <= begin THEN end + MinutesPerDay ELSE end) - 1)}
TurtleTable(t) == UNION {Covered(day, t.begin, t.end) : day \in t.days}

(* getInTurtleTime, autoSwitchState *)
InTurtleTime(t, now) == now \in t.table
AutoSwitchState(on) == IF on THEN "on" ELSE "off"

(* tr_sessionGetActiveSpeedLimit_Bps and updateBandwidth: a limit of zero is  *)
(* none for the bandwidth, which still learns the number                      *)
ActiveLimit(t, l) ==
    IF t.on THEN [limited |-> TRUE, speed |-> l.alternative]
    ELSE [limited |-> l.used, speed |-> IF l.used THEN l.primary ELSE 0]
UpdateBandwidth(t, l) ==
    LET active == ActiveLimit(t, l) IN [active EXCEPT !.limited = @ /\ active.speed # 0]

(* useAltSpeed; altSpeedToggled is posted to the event thread *)
UseAlt(t, on, byUser) == IF t.on = on THEN t ELSE [t EXCEPT !.on = on, !.byUser = byUser]
Posts(p, old, new) == IF old.on = new.on THEN p ELSE [p EXCEPT !.alt = @ + 1]
(* turtleBootstrap, when the settings were loaded *)
Bootstrap2(t, now) ==
    LET loaded == [t EXCEPT !.byUser = FALSE, !.table = TurtleTable(t)]
        in == InTurtleTime(loaded, now)
    IN  IF t.clock THEN [loaded EXCEPT !.on = in, !.auto = AutoSwitchState(in)] ELSE [loaded EXCEPT !.auto = "unused"]
SchedInit ==
    /\ minute = 0
    /\ \E d \in SUBSET (0..(DaysPerWeek - 1)), c, o \in BOOLEAN, b, e \in 0..(MinutesPerDay - 1), p, a \in Speeds :
         /\ turtle = Bootstrap2([days |-> d, begin |-> b, end |-> e, clock |-> c, on |-> o, byUser |-> FALSE,
                                 auto |-> "unused", table |-> {}], 0)
         /\ limits = [primary |-> p, alternative |-> a, used |-> o]
    /\ bandwidth = UpdateBandwidth(turtle, limits)
    /\ flags = [set |-> FALSE, asked |-> FALSE]
    /\ posted = [alt |-> 0, toggles |-> 0, overlapped |-> FALSE] /\ settings = 0

(***************************************************************************)
(* The event thread                                                        *)
(***************************************************************************)
(* onNowTimer and turtleCheckClock: only a change of what the schedule says   *)
(* changes the mode, so that what the user set stays until then; the thread   *)
(* runs altSpeedToggled at once                                               *)
Clock(t, now) ==
    LET in == InTurtleTime(t, now)
    IN  IF ~t.clock \/ t.auto = AutoSwitchState(in) THEN t
        ELSE UseAlt([t EXCEPT !.auto = AutoSwitchState(in)], in, FALSE)
NowTimer ==
    LET now == (minute + 1) % MinutesPerWeek
        t == Clock(turtle, now)
    IN  /\ minute' = now /\ turtle' = t
        /\ bandwidth' = IF t.on # turtle.on THEN UpdateBandwidth(t, limits) ELSE bandwidth
        /\ UNCHANGED <<limits, flags, posted, settings>>
(* altSpeedToggled, as it was posted *)
AltSpeedToggled ==
    /\ posted.alt > 0 /\ posted' = [posted EXCEPT !.alt = @ - 1]
    /\ bandwidth' = UpdateBandwidth(turtle, limits)
    /\ UNCHANGED <<turtle, minute, limits, flags, settings>>
(* toggleDHTImpl, toggleLPDImpl, toggle_utp: whatever the value is by now *)
Toggle ==
    /\ posted.toggles > 0 /\ posted' = [posted EXCEPT !.toggles = @ - 1]
    /\ flags' = [flags EXCEPT !.set = ~@]
    /\ UNCHANGED <<turtle, minute, limits, bandwidth, settings>>

(***************************************************************************)
(* The settings                                                            *)
(***************************************************************************)
(* userPokedTheClock *)
Poked(t, now) ==
    LET fresh == [t EXCEPT !.auto = "unused", !.table = TurtleTable(t)]
        in == InTurtleTime(fresh, now)
    IN  IF fresh.clock THEN [UseAlt(fresh, in, TRUE) EXCEPT !.auto = AutoSwitchState(in)] ELSE fresh
(* tr_sessionUseAltSpeedTime, tr_sessionSetAltSpeedBegin, -End and -Day *)
SetSchedule(t) ==
    /\ SetsOne /\ t # turtle
    /\ turtle' = Poked(t, minute) /\ posted' = Posts(posted, turtle, turtle')
    /\ UNCHANGED <<minute, limits, bandwidth, flags>>
(* tr_sessionUseAltSpeed *)
UseAltSpeed(on) ==
    /\ SetsOne /\ turtle.on # on
    /\ turtle' = UseAlt(turtle, on, TRUE) /\ posted' = Posts(posted, turtle, turtle')
    /\ UNCHANGED <<minute, limits, bandwidth, flags>>
(* Mutant: the limit is stored, the bandwidth is not told *)
Told_Late(t, l) == bandwidth
Told(t, l) == UpdateBandwidth(t, l)
(* tr_sessionSetSpeedLimit_Bps, tr_sessionSetAltSpeed_Bps, tr_sessionLimitSpeed *)
SetLimits(l) ==
    /\ SetsOne /\ l # limits
    /\ limits' = l /\ bandwidth' = Told(turtle, l)
    /\ UNCHANGED <<turtle, minute, flags, posted>>
(* tr_sessionSetDHTEnabled, -LPDEnabled, -UTPEnabled, called by another thread *)
SetEnabled(on) ==
    /\ SetsOne
    /\ flags' = [flags EXCEPT !.asked = on]
    /\ posted' = [posted EXCEPT !.toggles = IF on # flags.set THEN @ + 1 ELSE @, !.overlapped = @ \/ posted.toggles > 0]
    /\ UNCHANGED <<turtle, minute, limits, bandwidth>>

SchedNext ==
    \/ NowTimer
    \/ AltSpeedToggled
    \/ Toggle
    \/ \E d \in SUBSET (0..(DaysPerWeek - 1)) : SetSchedule([turtle EXCEPT !.days = d])
    \/ \E m \in 0..(MinutesPerDay - 1) : SetSchedule([turtle EXCEPT !.begin = m]) \/ SetSchedule([turtle EXCEPT !.end = m])
    \/ \E c \in BOOLEAN : SetSchedule([turtle EXCEPT !.clock = c])
    \/ \E on \in BOOLEAN : UseAltSpeed(on) \/ SetEnabled(on)
    \/ \E s \in Speeds : SetLimits([limits EXCEPT !.primary = s]) \/ SetLimits([limits EXCEPT !.alternative = s])
    \/ \E u \in BOOLEAN : SetLimits([limits EXCEPT !.used = u])
SchedSpec == SchedInit /\ [][SchedNext]_schedVars

(***************************************************************************)
(* Properties                                                              *)
(***************************************************************************)
(* Whether a day's time covers a minute: from the begin until the end, or     *)
(* until the end of the next day's part when the end comes first              *)
Scheduled(now) ==
    \E day \in turtle.days, k \in 0..(2 * MinutesPerDay) :
        /\ now = (day * MinutesPerDay + turtle.begin + k) % MinutesPerWeek
        /\ IF turtle.begin < turtle.end THEN k < turtle.end - turtle.begin
           ELSE k < MinutesPerDay - turtle.begin + turtle.end

(* With the clock on, the mode is what the schedule says or the user changed  *)
(* it since; and the bandwidth obeys the limits of the mode as soon as the     *)
(* event thread has done what was posted to it.                               *)
ScheduleObeyed ==
    /\ turtle.clock => turtle.auto = AutoSwitchState(Scheduled(minute))
    /\ turtle.clock /\ ~turtle.byUser => turtle.on = Scheduled(minute)
    /\ posted.alt = 0 => bandwidth = UpdateBandwidth(turtle, limits)

(* A setting that is toggled ends as it was last asked, unless it was asked    *)
(* again before the first toggle was done.                                     *)
TogglesSettle == posted.toggles = 0 /\ ~posted.overlapped => flags.set = flags.asked
=============================================================================
