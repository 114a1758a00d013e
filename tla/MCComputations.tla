--------------------------- MODULE MCComputations ---------------------------
(* Computations over the curve y^2 = x^3 + 7 with 43 elements, which has   *)
(* 31 points, keys of two bytes, and short lists.                          *)
EXTENDS Computations

AllLengths == 0 .. 136

Key == <<8, 37>>

Content(prefix, key, data, how) == [prefix |-> prefix, key |-> key, data |-> data, how |-> how]

ClientContents ==
  <<Content("npub", Key, Key, "readable"),
    Content("npub", <<255, 0>>, <<255, 0>>, "readable"),
    Content("note", Key, Key, "readable"),
    Content("nprofile", Key, <<1, 1, 7, 0, 2>> \o Key \o <<9, 0>>, "readable"),
    Content("nevent", Key, <<3, 1, 4, 2, 2, 5, 5, 0, 2>> \o Key, "readable"),
    Content("naddr", Key, <<3, 1, 4, 2, 2>> \o Key \o <<0, 0>>, "readable"),
    Content("nprofile", Key, <<0, 2>> \o Key \o <<1, 3, 7, 7, 7, 1, 2, 8, 8>>, "long"),
    Content("nevent", Key, <<0, 2>> \o Key \o <<1>>, "endless")>>

Messages == UNION {[1 .. n -> -1 .. 8] : n \in 0 .. 2}
            \cup {<<4, 0, 1>>, <<2, 1, 3>>, <<6, 4, 5>>, <<1, 0, 1>>, <<3, -1, 1>>, <<-1, 8, 1>>, <<1, 8, -1>>, <<7, 3, 2>>}

Rows == {[equality |-> e, amount |-> 12] : e \in {"<", ">=", "="}}
        \cup {[equality |-> "=~", amount |-> a] : a \in {1, 2, 11, 12, 21, 121}}

Lists == UNION {[1 .. n -> Rows] : n \in 0 .. 3}

Amounts == {0, 1, 11, 12, 21, 112, 121, 211, 1111, 1121, 1212, 2112, 12121}

AllAges == UNION {(f.below * 2 - 3) .. (f.below * 2 + 3) : f \in {formats[i] : i \in DOMAIN formats}}
           \cup (0 .. 300) \cup {TenYears * 2 + d : d \in -1 .. 1}
           \cup {3 * 3600 * 2, 23 * 3600 * 2, 6 * 86400 * 2, 21 * 86400 * 2 - 1}
           \cup {2 * 43200 * k : k \in 63 .. 1600}
=============================================================================
