---------------------------- MODULE MCHostPower ----------------------------
EXTENDS HostPower

(* Two policies, of which the ceiling of 2 concerns the first (3), not the *)
(* second (2); a zone that is linked twice, and two of one name.           *)
MCHwMax == <<3, 2>>
MCMinFreq == <<2, 1>>
MCZoneOf == [l \in {"l1", "l2", "l3", "l4"} |-> CASE l = "l3" -> 2 [] l = "l4" -> 3 [] OTHER -> 1]
MCNameOf == <<"package", "psys", "psys">>
MCCapMin == <<1, 1, 1>>
MCCapMax == <<2, 2, 2>>
MCDefault == [c \in Controls |-> IF c[1] = "max" THEN HwMax[c[2]] ELSE 0]

(* Boost resets the ceilings; a governor, the preference of its policy.    *)
MCResets ==
    [c \in Controls |->
        CASE c[1] = "boost"    -> {"max"} \X (1..Policies)
          [] c[1] = "governor" -> {<<"epp", c[2]>>}
          [] OTHER             -> {}]

Conf(backend, kinds, freq, limits, check) ==
    [backend |-> backend, kinds |-> kinds, freq |-> freq, limits |-> limits, check |-> check]
Limit(name, value) == [zone |-> name, value |-> value]
One == <<Limit("package", 1)>>

MCCases ==
    [config : UNION {{Conf("sysfs", {"boost", "max"}, 2, One, c),
                      Conf("sysfs", {"governor", "epp"}, 2, <<>>, c),
                      Conf("power-profiles-daemon", {}, 2, One, c)} : c \in BOOLEAN}
              \cup {Conf("sysfs", {"boost", "max"}, 3, <<>>, FALSE)},
     broken : {{}}]
    \cup
    [config : {Conf("sysfs", {"max"}, f, <<>>, FALSE) : f \in {0, 1}}
              \cup {Conf("sysfs", {"profile"}, 2, l, FALSE) :
                       l \in {<<Limit("package", 3)>>, <<Limit("psys", 1)>>,
                              <<Limit("none", 1)>>, One \o <<Limit("package", 2)>>}}
              \cup {Conf("power-profiles-daemon", {"epp"}, 2, <<>>, FALSE),
                    Conf("none", {"profile"}, 2, <<>>, FALSE)},
     broken : {{}}]
    \cup
    [config : {Conf("sysfs", {"max", "epp"}, 2, One, FALSE),
               Conf("power-profiles-daemon", {}, 2, One, FALSE)},
     broken : {{<<"max", 1>>}, {<<"max", 2>>}, {<<"cap", 1>>}, {<<"epp", 2>>}, {<<"ppd", 0>>}}]

MCDrifting == {<<"boost", 0>>, <<"max", 1>>}
=============================================================================
