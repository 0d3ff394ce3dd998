-------------------------------- MODULE Tags --------------------------------
(* What the router learns from the tags of a way. pick reads the metadata of a
   way out of its tags, which are a hash map and come in any order; a trip is
   configured from its context, or field by field by a caller; the search asks
   whether the way may be used in a direction; the RPC service reports a limit
   for it; and conditions and opening hours are read and evaluated on their
   own. answer is the last answer given, with what it was asked for.       *)
EXTENDS Limits

CONSTANTS
    Ways,        \* [access, speeds]: the access tags and the maxspeed tags of a way
    Texts,       \* texts of conditions, as words
    HourTexts,   \* texts of opening hours, as words
    Times        \* times of day asked for

VARIABLES way, meta, config, answer
vars == <<way, meta, config, answer>>

Nothing == [of |-> "nothing"]
NoWay == [access |-> <<>>, speeds |-> <<>>]
Unread == [access |-> <<>>, speed_limit |-> <<>>]

Init ==
    /\ way = NoWay
    /\ meta = Unread
    /\ config = runtime(<<"none", "plain">>)
    /\ answer = Nothing

Fresh == way = NoWay /\ config = runtime(<<"none", "plain">>) /\ answer = Nothing

\* The context of a trip decides its configuration. Nothing read from a way
\* depends on it, so it is settled first.
Configure(ctx) ==
    /\ Fresh
    /\ config' = runtime(ctx)
    /\ answer' = Nothing
    /\ UNCHANGED <<way, meta>>

\* The fields of the configuration are public: a caller may set them.
Customise(mode, private) ==
    /\ Fresh
    /\ config' = [config EXCEPT !.transport_mode = mode, !.allow_private_roads = private]
    /\ answer' = Nothing
    /\ UNCHANGED <<way, meta>>

\* Each hash map iterates in some order of its own.
pick(w, order, speedOrder) ==
    [access |-> access(w.access, order),
     speed_limit |-> SpeedLimitCollection(w.speeds, speedOrder)]

Pick(w) ==
    /\ way = NoWay /\ answer = Nothing
    /\ way' = w
    /\ \E order \in SetToSeqs(DOMAIN w.access), speedOrder \in SetToSeqs(DOMAIN w.speeds) :
          meta' = pick(w, order, speedOrder)
    /\ answer' = Nothing
    /\ UNCHANGED config

Ask(direction) ==
    /\ way # NoWay
    /\ answer' = [of |-> "access", direction |-> direction,
                  val |-> accessible(meta.access, config, direction)]
    /\ UNCHANGED <<way, meta, config>>

Report ==
    /\ way # NoWay
    /\ answer' = [of |-> "limit", val |-> osm_edge_metadata(meta.speed_limit, config)]
    /\ UNCHANGED <<way, meta, config>>

\* Reading a text changes nothing and depends on nothing else: it is asked of
\* the initial state only.
ReadCondition(text) ==
    /\ Fresh
    /\ answer' = [of |-> "condition", text |-> text, val |-> ParseCondition(text)]
    /\ UNCHANGED <<way, meta, config>>

IsOpen(text, weekday, time) ==
    /\ Fresh
    /\ \E rules \in ParseHours(text) :
          answer' = [of |-> "hours", rules |-> rules, weekday |-> weekday,
                     time |-> time, val |-> is_open_at(rules, weekday, time)]
    /\ UNCHANGED <<way, meta, config>>

Next ==
    \/ \E w \in Ways : Pick(w)
    \/ \E ctx \in Contexts : Configure(ctx)
    \/ \E mode \in Modes, private \in BOOLEAN : Customise(mode, private)
    \/ \E direction \in {"outgoing", "incoming"} : Ask(direction)
    \/ Report
    \/ \E text \in Texts : ReadCondition(text)
    \/ \E text \in HourTexts, weekday \in Weekdays, time \in Times : IsOpen(text, weekday, time)

Spec == Init /\ [][Next]_vars

-----------------------------------------------------------------------------
OnChain(mode, m) == \E i \in DOMAIN hierarchy_chain[mode] : hierarchy_chain[mode][i] = m

(* The hierarchy is written out four times: as chains, as flags, and in the
   family predicates. For the mode of every configuration they agree: a mode
   is restricted by exactly the modes of its chain, the chain stays in one
   family, its parent's chain is its own without the last, and no mode is
   called non-motorized that a tag on motor_vehicle restricts.            *)
ModeTablesAgree ==
    LET mode == config.transport_mode
        parent == immediate_parent(mode)
    IN  /\ \A m \in Modes : is_restricted_by(mode, m) <=> OnChain(mode, m)
        /\ \A m \in Modes : matches_any_restriction(mode, {m}) <=> is_restricted_by(mode, m)
        /\ Cardinality({f \in 1 .. 3 : <<is_land(mode), is_water(mode), is_rail(mode)>>[f]}) = 1
        /\ parent # "none" =>
              /\ hierarchy_chain[parent] = parent_modes(mode)
              /\ is_land(parent) = is_land(mode) /\ is_water(parent) = is_water(mode)
        /\ is_non_motorized(mode) =>
              ~ is_restricted_by(mode, "motor_vehicle") /\ is_restricted_by(mode, "vehicle")

(* accessible answers from the tags alone, whatever order the hash map gave
   them in: the most specific mode of the trip's chain that a tag in this
   direction names decides, and among the tags of that mode the one whose
   value the code declares last. A way nothing applies to is open.         *)
AccessIsTheMostSpecific ==
    answer.of = "access" =>
        LET Covers(d) == d \in {"both_ways", IF answer.direction = "outgoing"
                                             THEN "forward" ELSE "backward"}
            tags == {from_key_value(key, way.access[key]) :
                        key \in {k \in DOMAIN way.access : IsAccessTag(k, way.access[k])}}
            on == {t \in tags : /\ OnChain(config.transport_mode, t.restriction.transport_mode)
                                /\ Covers(t.restriction.directionality)}
            deciding == {t \in on : \A u \in on :
                            OnChain(t.restriction.transport_mode, u.restriction.transport_mode)}
            last == {t.access : t \in {t \in deciding : \A u \in deciding :
                            AccessRank(u.access) <= AccessRank(t.access)}}
        IN  answer.val <=> (on = {} \/ (deciding # {} /\ \A v \in last : Permits(v, config)))

(* The limit reported for an edge is that of one tag that covers the trip, it
   does not depend on the order of the hash map, and a limit for everyone is
   reported before the vehicle's own: maxspeed hides maxspeed:hgv. Among
   limits of the same kind digits are compared as text. No condition is
   evaluated, and a limit per lane is never reported.                      *)
GeneralLimitIsReported ==
    answer.of = "limit" =>
        LET covering == {e \in {parse_tag(k, way.speeds[k]) : k \in {k \in DOMAIN way.speeds : IsMaxSpeed(k)}} :
                /\ ~ e.perLane /\ e.limits[1] # NoLimit
                /\ e.restriction.transport_mode \in {"none", config.transport_mode}
                /\ e.restriction.directionality \in {"none", "both_ways"}}
            General(e) == e.restriction.transport_mode = "none"
            Plain(e) == e.restriction.directionality = "none"
        IN  IF covering = {} THEN answer.val = 0
            ELSE \E e \in covering :
                   /\ answer.val = in_kmh(e.limits[1].speed)
                   /\ \A f \in covering :
                        /\ General(f) => General(e)
                        /\ General(f) = General(e) =>
                             /\ Plain(f) => Plain(e)
                             /\ Plain(f) = Plain(e) => ~ RankBefore(DebugRank(f), DebugRank(e))

Junction(c) == IF c.type = "Combined" THEN c.operator ELSE "none"

RECURSIVE Leaves(_)
Leaves(c) == IF c.type = "Combined" THEN Leaves(c.left) \o Leaves(c.right) ELSE <<c>>

RECURSIVE NoAndUnderOr(_)
NoAndUnderOr(c) ==
    c.type = "Combined" =>
        /\ c.operator = "OR" => Junction(c.left) # "AND" /\ Junction(c.right) # "AND"
        /\ NoAndUnderOr(c.left) /\ NoAndUnderOr(c.right)

(* However AND and OR are mixed, the atoms of a condition are those between
   the operators, in order, an OR never sits above an AND (so OR binds tighter
   here), and the reading of the written form is the condition itself, unless
   it holds hours that Display cannot write. The groups, purposes and stays
   the enumeration names are never told apart from a load.                 *)
ConditionSurvivesDisplay ==
    answer.of = "condition" =>
        LET leaves == Leaves(answer.val)
            Written(leaf) == leaf.type = "TimeDate" =>
                \A i \in DOMAIN leaf.hours :
                    /\ ~ leaf.hours[i].closed
                    /\ leaf.hours[i].weekdays = NoDays \/ leaf.hours[i].times = <<>>
        IN  /\ Len(leaves) = 1 + Cardinality({i \in DOMAIN answer.text :
                                    answer.text[i] \in {Word("AND"), Word("OR")}})
            /\ NoAndUnderOr(answer.val)
            /\ \A i \in DOMAIN leaves :
                  leaves[i].type \notin {"UserGroup", "Purpose", "StayDuration"}
            /\ (\A i \in DOMAIN leaves : Written(leaves[i])) =>
                  ParseCondition(DisplayCondition(answer.val)) = answer.val

(* A place is open exactly when some range of a rule for the day holds the
   time, a range that ends before it begins being one that runs past midnight:
   it holds the time of the same day or of the next. The hours after midnight
   count for the day the rule names, not for the day after it.             *)
OpenAcrossMidnight ==
    answer.of = "hours" =>
        LET day == 24 * 60
            now == Minutes(answer.time)
            Holds(r) == LET from == Minutes(r.start)
                            to == Minutes(r.end) + (IF Minutes(r.end) < from THEN day ELSE 0)
                            wraps == Minutes(r.end) < from
                        IN  \E t \in {now} \cup (IF wraps THEN {now + day} ELSE {}) :
                                from <= t /\ t <= to
            Named(rule) == \/ rule.weekdays = NoDays
                           \/ rule.weekdays.form = "range"
                           \/ \E i \in DOMAIN rule.weekdays.days :
                                 rule.weekdays.days[i] = answer.weekday
        IN  answer.val <=> \E i \in DOMAIN answer.rules :
                /\ Named(answer.rules[i])
                /\ \E k \in DOMAIN answer.rules[i].times : Holds(answer.rules[i].times[k])
=============================================================================
