------------------------------- MODULE Limits -------------------------------
(* Speed limits (osm/parsers/speed_limit, primitives/speed.rs): from the
   maxspeed tags of a way to the limit that is reported for a trip. The value
   of a tag is a sequence of lanes; a lane is what VALUE_RE captures of it,
   num (-1 where no digits lead) and unit, and the words that follow.      *)
EXTENDS Access, Condition

U16 == 65535
Empty == [num |-> -1, unit |-> "", words |-> <<>>]
NoSpeed == [unit |-> "missing", num |-> 0]
NoCondition == [type |-> "missing"]
NoLimit == [speed |-> NoSpeed, condition |-> NoCondition]

\* A number is read first, so a value without one is no speed at all, and
\* "variable", "inherited", "none" and "walk" only count behind a number.
parse_speed(lane) ==
    IF lane.num \notin 1 .. U16 THEN NoSpeed
    ELSE IF lane.unit \in {"mph", "knots"} THEN [unit |-> lane.unit, num |-> lane.num]
    ELSE IF lane.unit \in {"variable", "inherited", "none", "walk"}
         THEN [unit |-> lane.unit, num |-> 0]
    ELSE [unit |-> "kmh", num |-> lane.num]

\* n * milli / 1000, as a u16 that saturates. milli is split in two so that no
\* intermediate product leaves 32 bits.
Scaled(n, whole, micro) ==
    LET q == n \div 1000
        r == n % 1000
        part == (q * micro + (r * micro) \div 1000) \div 1000
        all == n * whole + part
    IN  IF all > U16 THEN U16 ELSE all

\* 0 is None: no number of km/h.
in_kmh(speed) ==
    CASE speed.unit = "kmh" -> speed.num
      [] speed.unit = "mph" -> Scaled(speed.num, 1, 609344)
      [] speed.unit = "knots" -> Scaled(speed.num, 1, 852000)
      [] OTHER -> 0

\* CONDITION_RE: from the first bracket that opens to the first that closes
\* behind it, with at least a word between.
parse_condition(words) ==
    LET opens == {i \in DOMAIN words : words[i] = Open}
        start == CHOOSE i \in opens : \A j \in opens : i <= j
        closes == {i \in DOMAIN words : words[i] = Close /\ i > start + 1}
        end == CHOOSE i \in closes : \A j \in closes : i <= j
    IN  IF opens = {} THEN NoCondition
        ELSE IF closes = {} \/ words[start + 1] = Close THEN NoCondition
        ELSE ParseCondition(SubSeq(words, start + 1, end - 1))

ParseLimit(lane) ==
    IF lane = Empty \/ parse_speed(lane) = NoSpeed THEN NoLimit
    ELSE [speed |-> parse_speed(lane), condition |-> parse_condition(lane.words)]

\* split_terminator drops the empty text behind a last "|".
Lanes(value) ==
    IF value # <<>> /\ value[Len(value)] = Empty THEN SubSeq(value, 1, Len(value) - 1)
    ELSE value

HasSection(key, name) == \E i \in DOMAIN key : key[i] = name
IsMaxSpeed(key) == key # <<>> /\ key[1] = "maxspeed"

\* An entry whose value is no limit at all is left out, unless it is per lane.
parse_tag(key, value) ==
    LET perLane == HasSection(key, "lanes")
        lanes == IF perLane THEN Lanes(value) ELSE <<value[1]>>
    IN  [restriction |-> parse_builder(key), perLane |-> perLane,
         limits |-> [i \in DOMAIN lanes |-> ParseLimit(lanes[i])]]

IsEntry(entry) == entry.perLane \/ entry.limits[1] # NoLimit

\* The place of a speed among texts: by unit, then by digits read as text, so
\* that 100 comes before 80 and 10 before 100.
Units == <<"missing", "inherited", "kmh", "knots", "mph", "none", "variable", "walk">>
Digits(n) == CHOOSE d \in 1 .. 5 : 10^(d - 1) <= n /\ n < 10^d
SpeedRank(speed) ==
    <<CHOOSE i \in DOMAIN Units : Units[i] = speed.unit,
      IF speed.num = 0 THEN 0 ELSE speed.num * 10^(5 - Digits(speed.num)),
      IF speed.num = 0 THEN 0 ELSE Digits(speed.num)>>

\* The entries are sorted by their Debug text, in which None comes before Some,
\* Blanket before PerLane and any lane before no lane at all. Two modes, two
\* directions or two conditions are not told apart: the first two are never
\* relevant together.
DebugRank(e) ==
    LET first == IF e.limits = <<>> THEN NoLimit ELSE e.limits[1]
    IN  <<IF e.restriction.transport_mode = "none" THEN 0 ELSE 1,
          IF e.restriction.directionality = "none" THEN 0 ELSE 1,
          IF e.perLane THEN 1 ELSE 0,
          IF e.limits = <<>> THEN 1 ELSE 0>>
        \o SpeedRank(first.speed)
        \o <<IF first.condition = NoCondition THEN 0 ELSE 1>>

RankBefore(a, b) == \E k \in DOMAIN a : a[k] < b[k] /\ \A j \in 1 .. k - 1 : a[j] = b[j]

\* Mutant: the entries stay in the order of the hash map.
CollectionUnsorted(tags, order) ==
    LET keys == SelectSeq(order, IsMaxSpeed)
    IN  SelectSeq([i \in DOMAIN keys |-> parse_tag(keys[i], tags[keys[i]])], IsEntry)

\* Equal keys keep the order of the hash map.
SpeedLimitCollection(tags, order) ==
    LET entries == {[at |-> i, entry |-> parse_tag(order[i], tags[order[i]])] :
                      i \in {i \in DOMAIN order : IsMaxSpeed(order[i])}}
        ranked == {[entry |-> x.entry, rank |-> DebugRank(x.entry) \o <<x.at>>] :
                     x \in {x \in entries : IsEntry(x.entry)}}
        Place(x) == Cardinality({y \in ranked : RankBefore(y.rank, x.rank)}) + 1
    IN  [p \in 1 .. Cardinality(ranked) |-> (CHOOSE x \in ranked : Place(x) = p).entry]

Relevant(entry, config, conditions) ==
    /\ entry.restriction.transport_mode \in {"none", config.transport_mode}
    /\ entry.restriction.directionality \in {"none", conditions.directionality}

\* lane is a NonZeroU8 (0 stands for none) used as an index that begins at 0.
LimitOn(entry, conditions) ==
    IF ~ entry.perLane THEN entry.limits[1]
    ELSE IF conditions.lane = 0 \/ conditions.lane + 1 > Len(entry.limits) THEN NoLimit
    ELSE entry.limits[conditions.lane + 1]

relevant_limits(entries, config, conditions) ==
    LET of == SelectSeq(entries, LAMBDA e : Relevant(e, config, conditions))
        limits == [i \in DOMAIN of |-> LimitOn(of[i], conditions)]
    IN  SelectSeq(limits, LAMBDA l : l # NoLimit)

\* What the RPC service reports of an edge: the first relevant limit, whatever
\* its condition; 0 for none.
DefaultConditions == [directionality |-> "both_ways", lane |-> 0]
osm_edge_metadata(entries, config) ==
    LET limits == relevant_limits(entries, config, DefaultConditions)
    IN  IF limits = <<>> THEN 0 ELSE in_kmh(limits[1].speed)
=============================================================================
