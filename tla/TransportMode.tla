---------------------------- MODULE TransportMode ----------------------------
(* The transport modes of OSM tags (osm/parsers/primitives/transport.rs) and
   the directionality of a tag (direction.rs). A mode is named by the string
   the code parses it from. The code keeps the hierarchy of modes twice, as a
   chain and as a set of u128 flags; both copies are kept here.            *)
EXTENDS Sequences, Integers, FiniteSets, TLC

LandModes ==
    <<"access", "foot", "dog", "ski", "ski:nordic", "ski:alpine", "ski:telemark",
      "inline_skates", "horse", "portage",
      "bicycle", "electric_bicycle", "mtb", "cargo_bike", "kick_scooter",
      "carriage", "cycle_rickshaw", "hand_cart", "trailer", "caravan",
      "vehicle", "motor_vehicle",
      "motorcycle", "moped", "speed_pedelec", "mofa", "small_electric_vehicle",
      "motorcar", "motorhome", "tourist_bus", "coach", "goods", "hgv",
      "hgv_articulated", "bdouble", "agricultural", "auto_rickshaw", "nev",
      "golf_cart", "microcar", "atv", "ohv", "snowmobile",
      "psv", "bus", "taxi", "minibus", "share_taxi", "hov", "carpool",
      "car_sharing", "emergency", "hazmat", "hazmat:water", "school_bus",
      "disabled">>

WaterModes ==
    <<"water_access", "swimming", "ice_skates", "boat", "motorboat", "sailboat",
      "canoe", "fishing_vessel", "ship", "passenger", "cargo", "bulk", "tanker",
      "tanker:gas", "tanker:oil", "tanker:chemical", "tanker:singlehull",
      "container", "imdg", "isps">>

RailModes == <<"rail_access", "train", "tram", "metro">>

Variants == LandModes \o WaterModes \o RailModes
Modes == {Variants[i] : i \in DOMAIN Variants}

\* A mode's name split at ":", the separator of a tag's key.
Sections(mode) ==
    CASE mode = "ski:nordic" -> <<"ski", "nordic">>
      [] mode = "ski:alpine" -> <<"ski", "alpine">>
      [] mode = "ski:telemark" -> <<"ski", "telemark">>
      [] mode = "hazmat:water" -> <<"hazmat", "water">>
      [] mode = "tanker:gas" -> <<"tanker", "gas">>
      [] mode = "tanker:oil" -> <<"tanker", "oil">>
      [] mode = "tanker:chemical" -> <<"tanker", "chemical">>
      [] mode = "tanker:singlehull" -> <<"tanker", "singlehull">>
      [] OTHER -> <<mode>>

\* Flag 1 << n belongs to the mode in position n of the enumeration.
Bit == [mode \in Modes |-> (CHOOSE i \in DOMAIN Variants : Variants[i] = mode) - 1]
to_flag(mode) == {Bit[mode]}

-----------------------------------------------------------------------------
Under(prefix, modes) == [m \in modes |-> Append(prefix, m)]

ChainsOnLand ==
    LET land == <<"access">>
        vehicle == Append(land, "vehicle")
        motor == Append(vehicle, "motor_vehicle")
        goods == Append(motor, "goods")
        psv == Append(motor, "psv")
    IN  Under(<<>>, {"access"})
        @@ Under(land, {"foot", "dog", "ski", "inline_skates", "horse", "portage", "vehicle"})
        @@ Under(Append(land, "ski"), {"ski:nordic", "ski:alpine", "ski:telemark"})
        @@ Under(vehicle, {"bicycle", "kick_scooter", "carriage", "cycle_rickshaw",
                           "hand_cart", "trailer", "caravan", "motor_vehicle"})
        @@ Under(Append(vehicle, "bicycle"), {"electric_bicycle", "mtb", "cargo_bike"})
        @@ Under(motor, {"motorcycle", "moped", "speed_pedelec", "mofa",
                         "small_electric_vehicle", "motorcar", "motorhome", "tourist_bus",
                         "coach", "goods", "agricultural", "auto_rickshaw", "nev",
                         "golf_cart", "microcar", "atv", "ohv", "snowmobile", "psv",
                         "taxi", "hov", "car_sharing", "emergency", "hazmat", "disabled"})
        @@ Under(goods, {"hgv"})
        @@ Under(Append(goods, "hgv"), {"hgv_articulated", "bdouble"})
        @@ Under(psv, {"bus"})
        @@ Under(Append(psv, "bus"), {"minibus", "school_bus"})
        @@ Under(Append(motor, "taxi"), {"share_taxi"})
        @@ Under(Append(motor, "hov"), {"carpool"})
        @@ Under(Append(motor, "hazmat"), {"hazmat:water"})

ChainsElsewhere ==
    LET boat == <<"water_access", "boat">>
        ship == Append(boat, "ship")
        cargo == Append(ship, "cargo")
    IN  Under(<<>>, {"water_access", "rail_access"})
        @@ Under(<<"water_access">>, {"swimming", "ice_skates", "boat"})
        @@ Under(boat, {"motorboat", "sailboat", "canoe", "fishing_vessel", "ship"})
        @@ Under(ship, {"passenger", "cargo", "imdg", "isps"})
        @@ Under(cargo, {"bulk", "tanker", "container"})
        @@ Under(Append(cargo, "tanker"),
                 {"tanker:gas", "tanker:oil", "tanker:chemical", "tanker:singlehull"})
        @@ Under(<<"rail_access">>, {"train", "tram", "metro"})

hierarchy_chain == ChainsOnLand @@ ChainsElsewhere
specificity_level(mode) == Len(hierarchy_chain[mode])

\* The second copy: every mode's flag joined with those written before it.
Union(with, modes) ==
    [m \in modes |-> {Bit[w] : w \in with} \cup to_flag(m)]

FlagsUnmotorised ==
    Union({}, {"access"})
    @@ Union({"access"}, {"foot", "dog", "ski", "inline_skates", "horse", "portage", "vehicle"})
    @@ Union({"access", "ski"}, {"ski:nordic", "ski:alpine", "ski:telemark"})
    @@ Union({"access", "vehicle"},
             {"bicycle", "kick_scooter", "carriage", "cycle_rickshaw", "hand_cart",
              "trailer", "caravan", "motor_vehicle"})
    @@ Union({"access", "vehicle", "bicycle"}, {"electric_bicycle", "mtb", "cargo_bike"})

FlagsMotorised ==
    LET motor == {"access", "vehicle", "motor_vehicle"} IN
    Union(motor, {"motorcycle", "moped", "speed_pedelec", "mofa", "small_electric_vehicle",
                  "motorcar", "motorhome", "tourist_bus", "coach", "goods", "agricultural",
                  "auto_rickshaw", "nev", "golf_cart", "microcar", "atv", "ohv", "snowmobile"})
    @@ Union(motor \cup {"goods"}, {"hgv"})
    @@ Union(motor \cup {"goods", "hgv"}, {"hgv_articulated", "bdouble"})

\* Mutant: the flags of a school bus leave out the bus.
FlagsByPurposeFlat ==
    LET motor == {"access", "vehicle", "motor_vehicle"} IN
    Union(motor, {"psv", "taxi", "hov", "car_sharing", "emergency", "hazmat", "disabled"})
    @@ Union(motor \cup {"psv"}, {"bus", "school_bus"})
    @@ Union(motor \cup {"psv", "bus"}, {"minibus"})
    @@ Union(motor \cup {"taxi"}, {"share_taxi"})
    @@ Union(motor \cup {"hov"}, {"carpool"})
    @@ Union(motor \cup {"hazmat"}, {"hazmat:water"})

FlagsByPurpose ==
    LET motor == {"access", "vehicle", "motor_vehicle"} IN
    Union(motor, {"psv", "taxi", "hov", "car_sharing", "emergency", "hazmat", "disabled"})
    @@ Union(motor \cup {"psv"}, {"bus"})
    @@ Union(motor \cup {"psv", "bus"}, {"minibus", "school_bus"})
    @@ Union(motor \cup {"taxi"}, {"share_taxi"})
    @@ Union(motor \cup {"hov"}, {"carpool"})
    @@ Union(motor \cup {"hazmat"}, {"hazmat:water"})

FlagsElsewhere ==
    LET ship == {"water_access", "boat", "ship"} IN
    Union({}, {"water_access", "rail_access"})
    @@ Union({"water_access"}, {"swimming", "ice_skates", "boat"})
    @@ Union({"water_access", "boat"},
             {"motorboat", "sailboat", "canoe", "fishing_vessel", "ship"})
    @@ Union(ship, {"passenger", "cargo", "imdg", "isps"})
    @@ Union(ship \cup {"cargo"}, {"bulk", "tanker", "container"})
    @@ Union(ship \cup {"cargo", "tanker"},
             {"tanker:gas", "tanker:oil", "tanker:chemical", "tanker:singlehull"})
    @@ Union({"rail_access"}, {"train", "tram", "metro"})

hierarchy_chain_flags ==
    FlagsUnmotorised @@ FlagsMotorised @@ FlagsByPurpose @@ FlagsElsewhere

\* bitflags' contains: every flag of the second is in the first.
is_restricted_by(mode, restriction_mode) ==
    to_flag(restriction_mode) \subseteq hierarchy_chain_flags[mode]

matches_any_restriction(mode, restrictions) ==
    \E r \in restrictions : \E i \in DOMAIN hierarchy_chain[mode] : hierarchy_chain[mode][i] = r

parent_modes(mode) ==
    LET chain == hierarchy_chain[mode] IN SubSeq(chain, 1, Len(chain) - 1)

\* "none" for the three modes at the top.
immediate_parent(mode) ==
    LET parents == parent_modes(mode)
    IN  IF parents = <<>> THEN "none" ELSE parents[Len(parents)]

is_land(mode) == \E i \in DOMAIN LandModes : LandModes[i] = mode
is_water(mode) == \E i \in DOMAIN WaterModes : WaterModes[i] = mode
is_rail(mode) == mode \in {"rail_access", "train", "tram", "metro"}

\* Written out by hand in the code: the modes by purpose are only partly here.
is_motorized(mode) ==
    mode \in {"motor_vehicle", "motorcycle", "moped", "speed_pedelec", "mofa",
              "small_electric_vehicle", "motorcar", "motorhome", "tourist_bus", "coach",
              "goods", "hgv", "hgv_articulated", "bdouble", "agricultural",
              "auto_rickshaw", "nev", "golf_cart", "microcar", "atv", "ohv",
              "snowmobile", "psv", "bus", "taxi", "minibus", "share_taxi",
              "emergency", "motorboat"}

is_non_motorized(mode) ==
    mode \in {"bicycle", "electric_bicycle", "mtb", "cargo_bike", "kick_scooter",
              "carriage", "cycle_rickshaw", "hand_cart", "trailer", "caravan"}

-----------------------------------------------------------------------------
Directionality == {"both_ways", "forward", "backward", "both", "left", "right"}
is_directional(d) == d \in {"forward", "backward", "both_ways"}
is_positional(d) == d \in {"left", "right", "both"}

opposite(d) ==
    CASE d = "forward" -> "backward"
      [] d = "backward" -> "forward"
      [] d = "left" -> "right"
      [] d = "right" -> "left"
      [] OTHER -> "none"
=============================================================================
