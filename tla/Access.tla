------------------------------- MODULE Access -------------------------------
(* Access tags: from the tags of a way to "may this trip use it in this
   direction" (osm/parsers/access_tag, speed_limit/restriction.rs, and the
   Metadata implementation in osm/mod.rs). A tag's key is given as its
   sections, the parts between the colons.                                 *)
EXTENDS TransportMode, SequencesExt

\* The first section that names a mode, and the first that names a
\* directionality: a section holds no colon, so neither does what it names.
FirstSection(key, names) ==
    LET at == {i \in DOMAIN key : key[i] \in names}
    IN  IF at = {} THEN "none" ELSE key[CHOOSE i \in at : \A j \in at : i <= j]

SectionModes == {m \in Modes : Sections(m) = <<m>>}

parse_builder(key) ==
    [transport_mode |-> FirstSection(key, SectionModes),
     directionality |-> FirstSection(key, Directionality)]

parse_require_transport_mode(key) ==
    LET builder == parse_builder(key)
    IN  [builder EXCEPT !.directionality = IF @ = "none" THEN "both_ways" ELSE @]

\* Restriction's Display: the key an access tag is written back as.
RestrictionKey(r) == Append(Sections(r.transport_mode), r.directionality)

\* In the order the code declares, and therefore sorts, them.
AccessValues ==
    <<"yes", "no", "private", "permissive", "designated", "discouraged", "customers",
      "destination", "agricultural", "forestry", "delivery", "military",
      "use_sidepath", "dismount", "permit", "unknown", "variable">>
AccessRank(v) == CHOOSE i \in DOMAIN AccessValues : AccessValues[i] = v

IsAccessTag(key, value) ==
    /\ \E i \in DOMAIN AccessValues : AccessValues[i] = value
    /\ parse_builder(key).transport_mode # "none"

from_key_value(key, value) ==
    [restriction |-> parse_require_transport_mode(key), access |-> value]

\* Mutant: the tags stay in the order the hash map gave them.
AccessUnsorted(tags, order) ==
    LET found == SelectSeq(order, LAMBDA key : IsAccessTag(key, tags[key]))
    IN  [i \in DOMAIN found |-> from_key_value(found[i], tags[found[i]])]

\* Tags is a hash map: order is the order it happens to iterate in. The
\* result is then sorted by access value, keeping that order among equals.
access(tags, order) ==
    LET found == SelectSeq(order, LAMBDA key : IsAccessTag(key, tags[key]))
        parsed == [i \in DOMAIN found |-> from_key_value(found[i], tags[found[i]])]
        Before(i, j) == \/ AccessRank(parsed[i].access) < AccessRank(parsed[j].access)
                        \/ parsed[i].access = parsed[j].access /\ i < j
        Place(i) == Cardinality({j \in DOMAIN parsed : Before(j, i)}) + 1
    IN  [p \in DOMAIN parsed |-> parsed[CHOOSE i \in DOMAIN parsed : Place(i) = p]]

-----------------------------------------------------------------------------
\* A trip's context as the caller gives it: none, one for a mode the codec does
\* not know, or a vehicle with or without its dimensions.
Contexts == {"none", "other"} \X {"plain"} \cup {"car", "bus", "truck"} \X {"plain", "sized"}

\* OsmTripConfiguration::default, then what the context says. The code files
\* a vehicle's width under the property Weight. No properties are <<>>.
runtime(ctx) ==
    LET sized == <<<<"height", "height">>, <<"weight", "width">>>>
        mode == CASE ctx[1] \in {"none", "other"} -> "access"
                  [] ctx[1] = "car" -> "motor_vehicle"
                  [] ctx[1] = "bus" -> "bus"
                  [] ctx[1] = "truck" -> "hgv"
    IN  [transport_mode |-> mode, allow_private_roads |-> FALSE,
         vehicle_properties |->
            CASE ctx[2] = "plain" -> <<>>
              [] ctx[1] = "truck" /\ ctx[2] = "sized" ->
                    sized \o <<<<"axleload", "axle_load">>, <<"length", "length">>>>
              [] OTHER -> sized]

Applies(tag, config, direction) ==
    /\ is_restricted_by(config.transport_mode, tag.restriction.transport_mode)
    /\ CASE tag.restriction.directionality = "forward" -> direction = "outgoing"
         [] tag.restriction.directionality = "backward" -> direction = "incoming"
         [] tag.restriction.directionality = "both_ways" -> TRUE
         [] OTHER -> FALSE

Permits(value, config) ==
    \/ value = "yes"
    \/ value = "private" /\ config.allow_private_roads

\* max_by_key keeps the last of the most specific tags that apply.
accessible(tagged, config, direction) ==
    LET on == {i \in DOMAIN tagged : Applies(tagged[i], config, direction)}
        Level(i) == specificity_level(tagged[i].restriction.transport_mode)
        chosen == CHOOSE i \in on : \A j \in on :
                     Level(j) < Level(i) \/ (Level(j) = Level(i) /\ j <= i)
    IN  on = {} \/ Permits(tagged[chosen].access, config)
=============================================================================
