------------------------------- MODULE Hours --------------------------------
(* Opening hours (osm/parsers/primitives/opening_hours.rs). A text is the
   sequence of its words, and a word is given split at the separators the
   code splits it at:
     [kind |-> "days", form |-> "single" | "range" | "list", days |-> <<...>>]
     [kind |-> "times", spans |-> <<...>>]   a word with a colon in it; a span
                                             has one, two or more times;
                                             a comma ends a word that another
                                             word of times follows
     [kind |-> "word" | "op" | "num" | "sep", ...]    everything else       *)
EXTENDS Integers, Sequences, SequencesExt

Weekdays == {"Mo", "Tu", "We", "Th", "Fr", "Sa", "Su"}
Separator == [kind |-> "sep", w |-> ";"]
Anytime == [kind |-> "word", w |-> "24/7"]
Closed == {[kind |-> "word", w |-> "closed"], [kind |-> "word", w |-> "off"]}
NoDays == [kind |-> "none"]

\* A Result of the code's parsers is the set of what was parsed, empty for an
\* error; a list of results is collected to all of them or to an error.
Failed == {}
Got(x) == {x}
Collect(results, r) == {Append(list, x) : list \in results, x \in r}

\* Time::new; an hour or a minute that is no u8 is written as -1.
ValidTime(t) == t.hour \in 0 .. 24 /\ t.minute \in 0 .. 59

\* "Mo", "Mo-Fr" or "Mo,We": a range has exactly two ends.
IsWeekdayRange(word) ==
    /\ word.kind = "days"
    /\ word.form = "range" => Len(word.days) = 2
    /\ \A i \in DOMAIN word.days : word.days[i] \in Weekdays

\* A single time lasts an hour; an hour that begins at 24:00 ends at 25:00,
\* which is no time.
parse_time_range(span) ==
    LET start == span[1]
        next == [hour |-> IF start.hour = 23 THEN 0 ELSE start.hour + 1,
                 minute |-> start.minute]
        end == IF Len(span) = 1 THEN next ELSE span[2]
    IN  IF Len(span) > 2 \/ ~ ValidTime(start) \/ ~ ValidTime(end) THEN Failed
        ELSE Got([start |-> start, end |-> end])

\* The words from the first that looks like a time on, joined again.
parse_time_ranges(words) ==
    LET spans == FlattenSeq([i \in DOMAIN words |->
                    IF words[i].kind = "times" THEN words[i].spans ELSE <<>>])
    IN  IF \E i \in DOMAIN words : words[i].kind # "times" THEN Failed
        ELSE FoldLeft(LAMBDA ranges, span : Collect(ranges, parse_time_range(span)), Got(<<>>), spans)

\* Weekday words that do not parse are skipped, not refused; time words that
\* do not parse are refused.
parse_rule(rule) ==
    LET timed == {i \in DOMAIN rule : rule[i].kind = "times"}
        first == IF timed = {} THEN Len(rule) + 1
                 ELSE CHOOSE i \in timed : \A j \in timed : i <= j
        days == SelectSeq(SubSeq(rule, 1, first - 1), IsWeekdayRange)
        weekdays == IF days = <<>> THEN NoDays ELSE days[1]
        ranges == parse_time_ranges(SubSeq(rule, first, Len(rule)))
    IN  IF Len(rule) = 1 /\ rule[1] \in Closed
        THEN Got([weekdays |-> NoDays, times |-> <<>>, closed |-> TRUE])
        ELSE IF rule = <<>> THEN Failed
        ELSE {[weekdays |-> weekdays, times |-> times, closed |-> FALSE] :
                times \in {t \in ranges : weekdays # NoDays \/ t # <<>>}}

\* The rules between the semicolons, all or none.
SplitRules(text) ==
    FoldLeft(LAMBDA rules, word : IF word = Separator THEN Append(rules, <<>>)
                                  ELSE [rules EXCEPT ![Len(rules)] = Append(@, word)],
             <<<<>>>>, text)

ParseHours(text) ==
    LET day == [start |-> [hour |-> 0, minute |-> 0], end |-> [hour |-> 23, minute |-> 59]]
    IN  IF text = <<Anytime>>
        THEN Got(<<[weekdays |-> NoDays, times |-> <<day>>, closed |-> FALSE]>>)
        ELSE FoldLeft(LAMBDA rules, rule : Collect(rules, parse_rule(rule)), Got(<<>>), SplitRules(text))

\* Display writes a rule's weekdays and its times with nothing between them:
\* one word, with a colon in it, that is no time. A closed rule is nothing.
DisplayRule(rule) ==
    LET span(r) == <<r.start, r.end>>
        spans == [i \in DOMAIN rule.times |-> span(rule.times[i])]
        fused == <<[hour |-> -1, minute |-> 0]>>
    IN  (IF rule.weekdays # NoDays /\ spans = <<>> THEN <<rule.weekdays>> ELSE <<>>)
        \o (IF spans = <<>> THEN <<>>
            ELSE <<[kind |-> "times",
                    spans |-> IF rule.weekdays = NoDays THEN spans ELSE <<fused>>]>>)

DisplayHours(rules) ==
    FlattenSeq([i \in DOMAIN rules |->
        (IF i = 1 THEN <<>> ELSE <<Separator>>) \o DisplayRule(rules[i])])

-----------------------------------------------------------------------------
Minutes(t) == t.hour * 60 + t.minute

\* Mutant: a range that ends before it begins holds nothing.
TimeInDay(time, start, end) ==
    Minutes(start) <= Minutes(time) /\ Minutes(time) <= Minutes(end)

time_in_range(time, start, end) ==
    IF Minutes(start) <= Minutes(end)
    THEN Minutes(start) <= Minutes(time) /\ Minutes(time) <= Minutes(end)
    ELSE Minutes(start) <= Minutes(time) \/ Minutes(time) <= Minutes(end)

\* A range of weekdays is taken to hold every day.
AppliesToWeekday(rule, weekday) ==
    rule.weekdays # NoDays =>
        \/ rule.weekdays.form = "range"
        \/ \E i \in DOMAIN rule.weekdays.days : rule.weekdays.days[i] = weekday

is_open_at(rules, weekday, time) ==
    \E i \in DOMAIN rules :
        /\ ~ rules[i].closed
        /\ AppliesToWeekday(rules[i], weekday)
        /\ \E k \in DOMAIN rules[i].times :
              time_in_range(time, rules[i].times[k].start, rules[i].times[k].end)
=============================================================================
