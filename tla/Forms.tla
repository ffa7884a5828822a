------------------------------- MODULE Forms -------------------------------
(***************************************************************************)
(* The composer's pure conversions: a recurring schedule to its stored     *)
(* form and back (app/routers/jobs.py, with the assistant's schedule_fields*)
(* and the wording of main.py), and the plan of a series to its parts      *)
(* (services/series_forms.py, series_imports.py). A form is filled in and  *)
(* stored, and a schedule opened and saved again as often as one likes;    *)
(* what is stored is compared with what was given.                         *)
(*                                                                         *)
(* A definition named like its successor with a word added is a slip the   *)
(* properties must notice; nothing uses it.                                *)
(***************************************************************************)
EXTENDS Integers, SequencesExt

CONSTANTS MonthDays,   \* days of the month tried
          Pages,       \* bound: pages of a PDF
          Sources      \* plans tried: the lane and the number of entries of each source

(* A plan has a source, and a source an entry.                             *)
Source == [lane : Nat, length : Nat \ {0}]

(* SeriesPlan.validate_lanes: every source in a lane, or none (lane 0).    *)
LanesValid(plan) ==
  \/ \A s \in DOMAIN plan : plan[s].lane = 0
  \/ \A s \in DOMAIN plan : plan[s].lane # 0

ASSUME FormsAssumption ==
  /\ MonthDays \subseteq 1..31 /\ Pages \in Nat
  /\ \A plan \in Sources : plan \in Seq(Source) /\ plan # <<>> /\ LanesValid(plan)

VARIABLE form  \* the form: what it is about, what was given, what is stored

-----------------------------------------------------------------------------
(* A recurring schedule, less its time of day. The form counts weekdays    *)
(* from Sunday, the scheduler from Monday.                                 *)
Weekday == 0..6
Picks ==
  [freq : {"daily", "weekdays"}, days : {{}}, dom : {0}]
  \cup [freq : {"custom"}, days : SUBSET Weekday \ {{}}, dom : {0}]
  \cup [freq : {"monthly"}, days : {{}}, dom : MonthDays]

(* A cron expression's day of month and of week: "any", one ("0-4" or      *)
(* another) range of weekdays, or a list.                                  *)
Cron == [dom : {0} \cup MonthDays, dow : {"any", "0-4", "range", "list"}, days : SUBSET Weekday,
         month : BOOLEAN]

(* (d + 6) % 7, and its inverse for the form.                              *)
StoredDay(d) == (d + 6) % 7
FormDayBack(d) == (d + 6) % 7
FormDay(d) == (d + 1) % 7

(* build_trigger_value                                                     *)
Built(f) ==
  [dom |-> f.dom, month |-> FALSE,
   dow |-> CASE f.freq = "weekdays" -> "0-4" [] f.freq = "custom" -> "list" [] OTHER -> "any",
   days |-> {StoredDay(d) : d \in f.days}]

(* parse_cron_for_form. A range inside a list, a step or a weekday's name  *)
(* makes the edit page fail; a month is dropped.                           *)
Parsed(e) ==
  LET fields(freq, days, dom) == [freq |-> freq, days |-> days, dom |-> dom]
  IN CASE e.dow = "any" /\ e.dom = 0 -> fields("daily", {}, 0)
       [] e.dow = "0-4" /\ e.dom = 0 -> fields("weekdays", {}, 0)
       [] e.dow = "list" /\ e.dom = 0 -> fields("custom", {FormDay(d) : d \in e.days}, 0)
       [] e.dow = "any" -> fields("monthly", {}, e.dom)
       [] OTHER -> fields("raw", {}, 0)

(* cron_to_text: the days the pages and the assistant name, or the         *)
(* expression itself; a month is dropped here as well.                     *)
Worded(e) ==
  LET text(days, dom) == [says |-> "days", days |-> days, dom |-> dom]
  IN CASE e.dow = "any" /\ e.dom = 0 -> text(Weekday, 0)
       [] e.dow = "0-4" /\ e.dom = 0 -> text(0..4, 0)
       [] e.dow = "list" /\ e.dom = 0 -> text(e.days, 0)
       [] e.dow = "any" -> text(Weekday, e.dom)
       [] OTHER -> [says |-> "expression", days |-> {}, dom |-> 0]

(* The days a schedule fires on, by the form and by the scheduler, as      *)
(* pairs of a weekday (0: Monday) and a day of the month.                  *)
FormDays(f) ==
  {x \in Weekday \X MonthDays :
     CASE f.freq = "weekdays" -> x[1] <= 4
       [] f.freq = "custom" -> (x[1] + 1) % 7 \in f.days
       [] f.freq = "monthly" -> x[2] = f.dom
       [] OTHER -> TRUE}
CronDays(e) ==
  {x \in Weekday \X MonthDays :
     /\ e.dom = 0 \/ x[2] = e.dom
     /\ CASE e.dow = "any" -> TRUE [] e.dow = "0-4" -> x[1] <= 4 [] OTHER -> x[1] \in e.days}
NamedDays(text) == {x \in text.days \X MonthDays : text.dom = 0 \/ x[2] = text.dom}

(* What the form or its raw field gives; the days are those it means. A    *)
(* form opened on a raw expression gives it back as it is.                 *)
Scheduled(days, cron) == form' = [about |-> "schedule", given |-> days, stored |-> cron]
PickSchedule(f) == Scheduled(FormDays(f), Built(f))
RawSchedule(e) ==
  /\ ~e.month /\ (e.dow = "list" => e.days # {}) /\ (e.dow \in {"any", "0-4"} => e.days = {})
  /\ Scheduled(CronDays(e), e)
SaveAgain ==
  /\ form.about = "schedule" /\ Parsed(form.stored).freq # "raw"
  /\ Scheduled(form.given, Built(Parsed(form.stored)))

(* A recurring schedule fires on the days that were given and on those the *)
(* pages name, however often the edit form is opened and saved again:      *)
(* whatever was picked on the form, and whatever the raw field says as     *)
(* long as it names no month.                                              *)
ScheduleKept ==
  form.about = "schedule" =>
    /\ CronDays(form.stored) = form.given
    /\ Worded(form.stored).says = "expression" \/ NamedDays(Worded(form.stored)) = form.given

-----------------------------------------------------------------------------
(* Plans. An entry of source s is <<s, i>>; a part is the sequence of the  *)
(* entries whose messages and attachments it joins.                        *)
Entries(plan, s) == [i \in 1..plan[s].length |-> <<s, i>>]

(* combine_streams: one after the other, or side by side, the shorter ones *)
(* running out first.                                                      *)
Sequential(streams) == FlattenSeq(streams)
Shortest(streams) == Min({Len(streams[n]) : n \in DOMAIN streams})
Longest(streams) == Max({Len(streams[n]) : n \in DOMAIN streams})
Parallel(streams) ==
  [i \in 1..Longest(streams) |->
     FlattenSeq([n \in DOMAIN streams |-> IF i <= Len(streams[n]) THEN streams[n][i] ELSE <<>>])]

(* flatten_plan: every lane is sequential, the lanes run in parallel; a    *)
(* plan without lanes (lane 0 everywhere) says itself which it is.         *)
Parts(plan, s) == [i \in 1..plan[s].length |-> <<Entries(plan, s)[i]>>]
Flattened(plan, strategy) ==
  LET all == [s \in DOMAIN plan |-> Parts(plan, s)]
      lanes == {plan[s].lane : s \in DOMAIN plan}
      lane(l) == Sequential([s \in DOMAIN plan |-> IF plan[s].lane = l THEN all[s] ELSE <<>>])
  IN IF lanes # {0} THEN Parallel([n \in 1..Cardinality(lanes) |-> lane(SetToSeq(lanes)[n])])
     ELSE IF strategy = "sequential" THEN Sequential(all) ELSE Parallel(all)

(* split_pdf's chunks of a page range, and import_playlist's batches.      *)
Chunks(start, end, size) ==
  [n \in 1..((end - start) \div size + 1) |->
     LET first == start + (n - 1) * size IN [first |-> first, last |-> Min({first + size - 1, end})]]

Batches(count, size) ==
  [n \in 1..((count + size - 1) \div size) |->
     [first |-> (n - 1) * size + 1, last |-> Min({n * size, count})]]
Covered(chunks) ==
  FlattenSeq([n \in DOMAIN chunks |->
    [k \in 1..(chunks[n].last - chunks[n].first + 1) |-> chunks[n].first + k - 1]])

ComposeSeries(plan, strategy) ==
  form' = [about |-> "series", given |-> [plan |-> plan, strategy |-> strategy],
           stored |-> Flattened(plan, strategy)]
ImportPages(start, end, size) ==
  form' = [about |-> "pages", given |-> [k \in 1..(end - start + 1) |-> start + k - 1],
           stored |-> Chunks(start, end, size)]
ImportItems(count, size) ==
  form' = [about |-> "items", given |-> [k \in 1..count |-> k], stored |-> Batches(count, size)]

FormNext ==
  \/ SaveAgain
  \/ \E f \in Picks : PickSchedule(f)
  \/ \E e \in Cron : RawSchedule(e)
  \/ \E plan \in Sources, strategy \in {"sequential", "parallel"} : ComposeSeries(plan, strategy)
  \/ \E start, end \in 1..Pages, size \in 1..(Pages + 1) : start <= end /\ ImportPages(start, end, size)
  \/ \E count \in 1..Pages, size \in 1..(Pages + 1) : ImportItems(count, size)

Blank == [about |-> "nothing", given |-> {}, stored |-> {}]
FormSpec == form = Blank /\ [][FormNext]_form

(* The lane an entry's source belongs to. Without lanes, all sources share *)
(* one or each has its own.                                                *)
LaneOf(plan, strategy, e) ==
  IF plan[e[1]].lane # 0 THEN plan[e[1]].lane ELSE IF strategy = "sequential" THEN 0 ELSE e[1]
EntriesOf(plan) == UNION {{Entries(plan, s)[i] : i \in 1..plan[s].length} : s \in DOMAIN plan}
Precedes(e, f) == e[1] < f[1] \/ (e[1] = f[1] /\ e[2] < f[2])
Joins(part, e) == \E k \in DOMAIN part : part[k] = e

(* A series sends all of its content once and in order: every entry is in  *)
(* one part and every part has one; in a part a lane has at most one, the  *)
(* entries of a lane follow each other source by source, and a lane starts *)
(* with the first part and has no gap before it ends. Every page of an     *)
(* imported range, or item of a playlist, is in one chunk, in order.       *)
PlanKept(plan, strategy, parts) ==
  LET all == EntriesOf(plan)
      lane(e) == LaneOf(plan, strategy, e)
  IN /\ \A e \in all : \E n \in DOMAIN parts : Joins(parts[n], e)
     /\ \A n \in DOMAIN parts :
          /\ parts[n] # <<>>
          /\ \A k \in DOMAIN parts[n] : parts[n][k] \in all
          /\ \A k, l \in DOMAIN parts[n] : lane(parts[n][k]) = lane(parts[n][l]) => k = l
     /\ \A m, n \in DOMAIN parts, e, f \in all :
          Joins(parts[m], e) /\ Joins(parts[n], f) /\ lane(e) = lane(f) => (Precedes(e, f) <=> m < n)
     /\ \A n \in DOMAIN parts : \A m \in 1..n, e \in all :
          Joins(parts[n], e) => \E f \in all : Joins(parts[m], f) /\ lane(f) = lane(e)
PartsKept ==
  /\ form.about = "series" => PlanKept(form.given.plan, form.given.strategy, form.stored)
  /\ form.about \in {"pages", "items"} => Covered(form.stored) = form.given
=============================================================================
