---------------------------- MODULE BeatSchedule ----------------------------
(***************************************************************************)
(* The daily scrapes celery beat of ReconEye is told to start: one for     *)
(* Insecam, and for WhatsUpCams one for all countries or one per country,  *)
(* spread over the day by the place of the country in the configuration.   *)
(* The schedule is made once, when the application is loaded.              *)
(***************************************************************************)
EXTENDS Integers, Sequences, FiniteSetsExt, Excerpts

CONSTANTS
    Configured,   \* configured lists of countries, as numbers; 0 is a blank entry
    Overridden,   \* settings of slots: country -> <<hour, minute>> or Malformed
    Malformed,    \* a setting that is neither "h:m" nor a pair of numbers
    BaseHours,    \* PERIODIC_WUC_BASE_HOUR
    Steps         \* PERIODIC_WUC_MINUTE_STEP

\* The setting of a country counts when it is well-formed.
Given(overrides, country) == country \in DOMAIN overrides /\ overrides[country] # Malformed

ASSUME BeatAssumption ==
    /\ Configured \subseteq Seq(Nat)
    /\ BaseHours \subseteq Int /\ Steps \subseteq Int
    /\ \A overrides \in Overridden : \A country \in DOMAIN overrides :
          Given(overrides, country) => overrides[country] \in Int \X Int

VARIABLE beat   \* the schedule that was loaded and the settings it was made of

NoBeat == [state |-> "none"]

BeatInit == beat = NoBeat

\* get_whatsupcams_country_codes: blank and repeated entries are dropped.
Codes(configured) ==
    Excerpt(configured, {i \in FirstPlaces(configured) : configured[i] # 0})

\* Mutant: the hour does not move on after twelve countries.
SlotOfBaseHour(place, base, step) == <<base % 24, (place % 12) * Max({1, step})>>

\* Twelve countries an hour, place counts from 0.
DefaultSlot(place, base, step) ==
    <<(base + place \div 12) % 24, (place % 12) * Max({1, step})>>

\* _resolve_wuc_country_schedule: a well-formed override is brought into range.
SlotOf(place, country, base, step, overrides) ==
    IF Given(overrides, country)
    THEN <<overrides[country][1] % 24, overrides[country][2] % 60>>
    ELSE DefaultSlot(place, base, step)

Entry(source, country, slot) == [source |-> source, country |-> country, slot |-> slot]

\* country 0 stands for all countries.
Entries(daily, byCountry, configured, base, step, overrides) ==
    LET codes == Codes(configured)
    IN (IF daily THEN <<Entry("insecam", 0, <<3, 0>>)>> ELSE <<>>)
       \o (IF daily /\ ~byCountry THEN <<Entry("whatsupcams", 0, <<4, 0>>)>> ELSE <<>>)
       \o (IF byCountry
           THEN [i \in DOMAIN codes |->
                   Entry("whatsupcams", codes[i], SlotOf(i - 1, codes[i], base, step, overrides))]
           ELSE <<>>)

\* A slot of the clock: crontab raises for any other, and nothing is loaded.
OfClock(slot) == slot[1] \in 0..23 /\ slot[2] \in 0..59

LoadBeat(daily, byCountry, configured, base, step, overrides) ==
    LET entries == Entries(daily, byCountry, configured, base, step, overrides)
        fits == \A i \in DOMAIN entries : OfClock(entries[i].slot)
    IN /\ beat = NoBeat
       /\ beat' = [state |-> IF fits THEN "loaded" ELSE "refused",
                   daily |-> daily, byCountry |-> byCountry, configured |-> configured,
                   step |-> step, overrides |-> overrides,
                   entries |-> IF fits THEN entries ELSE <<>>]

BeatNext ==
    \E daily, byCountry \in BOOLEAN, configured \in Configured, base \in BaseHours,
       step \in Steps, overrides \in Overridden :
          LoadBeat(daily, byCountry, configured, base, step, overrides)

BeatSpec == BeatInit /\ [][BeatNext]_beat
-----------------------------------------------------------------------------
\* A schedule that is loaded scrapes every configured country of WhatsUpCams once
\* a day, by an entry of its own or by the one for all but never by both, and no
\* two countries that were not given a slot start together, unless there are so
\* many that the day is full; and only a step above five minutes with enough
\* countries keeps the application from loading (celery.py:24-51 and 72-97,
\* config.py:115-124).
CountriesApart ==
    LET wuc == {i \in DOMAIN beat.entries : beat.entries[i].source = "whatsupcams"}
        placed == {i \in wuc : ~Given(beat.overrides, beat.entries[i].country)}
        wanted == {beat.configured[i] : i \in DOMAIN beat.configured} \ {0}
    IN /\ beat.state = "loaded" =>
             /\ {beat.entries[i].country : i \in wuc} =
                   IF beat.byCountry THEN wanted ELSE IF beat.daily THEN {0} ELSE {}
             /\ \A i, j \in wuc : i # j => beat.entries[i].country # beat.entries[j].country
             /\ \A i, j \in placed :
                   i < j /\ j < i + 12 * 24 => beat.entries[i].slot # beat.entries[j].slot
       /\ beat.state = "refused" =>
             beat.byCountry /\ Len(Codes(beat.configured)) > 59 \div beat.step + 1 /\ beat.step > 5
=============================================================================
