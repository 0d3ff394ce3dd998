----------------------------- MODULE Condition ------------------------------
(* The condition of a conditional tag (osm/parsers/primitives/condition.rs).
   A text is a sequence of words as in Hours; operators, numbers (with the
   unit written on them), brackets, AND and OR are words of their own.     *)
EXTENDS Hours

Word(w) == [kind |-> "word", w |-> w]
Op(w) == [kind |-> "op", w |-> w]
Open == Word("(")
Close == Word(")")

SeasonCondition == {"winter", "summer", "spring", "autumn"}
RoadCondition == {"wet", "dry", "snow", "ice", "rain", "fog"}
VehicleProperty == {"weight", "axleload", "length", "width", "height", "wheels", "draught"}
UserGroupCondition ==
    {"doctor", "disabled", "emergency", "female", "residents", "permit", "staff", "customers"}
PurposeCondition ==
    {"destination", "delivery", "customers", "forestry", "agricultural", "private", "permit"}
DurationUnit(w) ==
    CASE w \in {"minute", "minutes"} -> "minutes"
      [] w \in {"hour", "hours"} -> "hours"
      [] w \in {"day", "days"} -> "days"
      [] OTHER -> "none"

\* The operators in the order the code looks for them: "<=" is found before
\* the "<" and the "=" it contains.
operators == <<"<=", ">=", "<", ">", "=">>
Spells(w, op) == w = op \/ (w \in {"<=", ">="} /\ op = "=")
                          \/ (w = "<=" /\ op = "<") \/ (w = ">=" /\ op = ">")

\* The first operator of that list the text holds, and where; 0 for none.
FindOperator(text) ==
    LET Holds(op) == {i \in DOMAIN text : text[i].kind = "op" /\ Spells(text[i].w, op)}
        found == SelectSeq(operators, LAMBDA op : Holds(op) # {})
    IN  IF found = <<>> THEN 0
        ELSE CHOOSE i \in Holds(found[1]) : \A j \in Holds(found[1]) : i <= j

Single(text, words) == Len(text) = 1 /\ text[1].kind = "word" /\ text[1].w \in words

parse_time_date(text) ==
    LET quotes == {i \in DOMAIN text : text[i].kind = "comment"}
        hours == IF quotes = {} THEN text
                 ELSE SubSeq(text, 1, (CHOOSE i \in quotes : \A j \in quotes : i <= j) - 1)
    IN  {[type |-> "TimeDate", hours |-> rules, comment |-> quotes # {}] :
           rules \in ParseHours(hours)}

parse_enum(type, text, words) ==
    IF Single(text, words) THEN Got([type |-> type, val |-> text[1].w]) ELSE Failed

parse_vehicle_property(text) ==
    LET at == FindOperator(text)
        value == SubSeq(text, at + 1, Len(text))
    IN  IF /\ at # 0
           /\ Single(SubSeq(text, 1, at - 1), VehicleProperty)
           /\ Len(value) = 1 /\ value[1].kind = "num"
        THEN Got([type |-> "VehicleProperty", property |-> text[1].w,
                  operator |-> text[at].w, value |-> value[1]])
        ELSE Failed

\* Anything that is not about occupants is the name of a load.
parse_vehicle_usage(text) ==
    LET occupants == text # <<>> /\ text[1] = Word("occupants")
        at == FindOperator(text)
        count == SubSeq(text, at + 1, Len(text))
    IN  IF text = <<Word("hazmat")>> THEN Got([type |-> "VehicleUsage", val |-> "hazmat"])
        ELSE IF occupants /\ at # 0
        THEN IF Len(count) = 1 /\ count[1].kind = "num" /\ count[1].unit = "none"
             THEN Got([type |-> "VehicleUsage", val |-> "occupants",
                       operator |-> text[at].w, count |-> count[1]])
             ELSE Failed
        ELSE Got([type |-> "VehicleUsage", val |-> "load", load |-> text])

parse_stay_duration(text) ==
    LET at == FindOperator(text)
        duration == SubSeq(text, at + 1, Len(text))
    IN  IF /\ text # <<>> /\ text[1] = Word("stay") /\ at # 0
           /\ Len(duration) = 2 /\ duration[1].kind = "num"
           /\ duration[2].kind = "word" /\ DurationUnit(duration[2].w) # "none"
        THEN Got([type |-> "StayDuration", operator |-> text[at].w,
                  value |-> duration[1], unit |-> DurationUnit(duration[2].w)])
        ELSE Failed

\* The parsers are tried in this order and the first success is kept.
ParseAtom(text) ==
    LET attempts ==
          <<parse_time_date(text),
            parse_enum("Season", text, SeasonCondition),
            parse_enum("RoadCondition", text, RoadCondition),
            parse_vehicle_property(text),
            parse_vehicle_usage(text),
            parse_enum("UserGroup", text, UserGroupCondition),
            parse_enum("Purpose", text, PurposeCondition),
            parse_stay_duration(text),
            Got([type |-> "Raw", text |-> text])>>
    IN  CHOOSE c \in Head(SelectSeq(attempts, LAMBDA r : r # Failed)) : TRUE

\* The first AND of the text splits it, whatever ORs are on either side; the
\* first OR does when there is no AND.
FindWord(text, w) ==
    LET at == {i \in 2 .. Len(text) - 1 : text[i] = Word(w)}
    IN  IF at = {} THEN 0 ELSE CHOOSE i \in at : \A j \in at : i <= j

Cleaned(text) ==
    IF Len(text) >= 2 /\ text[1] = Open /\ text[Len(text)] = Close
    THEN SubSeq(text, 2, Len(text) - 1) ELSE text

Parts(text) == {SubSeq(text, i, j) : i \in 1 .. Len(text) + 1, j \in 0 .. Len(text)}

\* Mutant: OR is looked for before AND.
ParseOrFirst(text) ==
    LET Atom == [t \in Parts(text) |-> ParseAtom(t)]
        parse[t \in Parts(text)] ==
          LET cleaned == Cleaned(t)
              or == FindWord(cleaned, "OR")
              at == IF or # 0 THEN or ELSE FindWord(cleaned, "AND")
          IN  IF at = 0 THEN Atom[cleaned]
              ELSE [type |-> "Combined", operator |-> cleaned[at].w,
                    left |-> parse[SubSeq(cleaned, 1, at - 1)],
                    right |-> parse[SubSeq(cleaned, at + 1, Len(cleaned))]]
    IN  parse[text]

ParseCondition(text) ==
    LET Atom == [t \in Parts(text) |-> ParseAtom(t)]
        parse[t \in Parts(text)] ==
          LET cleaned == Cleaned(t)
              and == FindWord(cleaned, "AND")
              at == IF and # 0 THEN and ELSE FindWord(cleaned, "OR")
          IN  IF at = 0 THEN Atom[cleaned]
              ELSE [type |-> "Combined", operator |-> cleaned[at].w,
                    left |-> parse[SubSeq(cleaned, 1, at - 1)],
                    right |-> parse[SubSeq(cleaned, at + 1, Len(cleaned))]]
    IN  parse[text]

\* Display of a condition, as the words it would be read back as.
RECURSIVE DisplayCondition(_)
DisplayCondition(c) ==
    CASE c.type = "TimeDate" ->
            DisplayHours(c.hours) \o (IF c.comment THEN <<[kind |-> "comment"]>> ELSE <<>>)
      [] c.type \in {"Season", "RoadCondition", "UserGroup", "Purpose"} -> <<Word(c.val)>>
      [] c.type = "VehicleProperty" -> <<Word(c.property), Op(c.operator), c.value>>
      [] c.type = "VehicleUsage" /\ c.val = "hazmat" -> <<Word("hazmat")>>
      [] c.type = "VehicleUsage" /\ c.val = "occupants" ->
            <<Word("occupants"), Op(c.operator), c.count>>
      [] c.type = "VehicleUsage" /\ c.val = "load" -> c.load
      [] c.type = "StayDuration" -> <<Word("stay"), Op(c.operator), c.value, Word(c.unit)>>
      [] c.type = "Combined" ->
            DisplayCondition(c.left) \o <<Word(c.operator)>> \o DisplayCondition(c.right)
      [] c.type = "Raw" -> c.text
=============================================================================
