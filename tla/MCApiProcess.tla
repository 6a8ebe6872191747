----------------------------- MODULE MCApiProcess -----------------------------
EXTENDS ApiProcess

\* Overrides: the second range holds the IPs of both devices.
MCRangeIps == <<{"a"}, {"a", "b"}>>
MCDeviceIps == <<"a", "b">>
MCHomes == <<{"X"}, {"X", "Y"}>>

\* Selection: four probes in three networks of two cities, the last one at two addresses.
MCNetworkOf == <<"n1", "n1", "n2", "n3">>
MCCityOf == [g \in {"n1", "n2", "n3"} |-> IF g = "n3" THEN "k2" ELSE "k1"]
MCIndexOf == <<<<{"k1"}, {}>>, <<{"k1"}, {}>>, <<{"k1"}, {"k1x"}>>, <<{}, {"k1x"}>>>>
MCUserTagsOf == <<{}, {}, {}, {"u"}>>
MCAddressesOf == <<{"a"}, {"b"}, {"c"}, {"d", "a"}>>
MCEarlierIPs == <<"a", "b", "z">>
MCReadyLists == {{1, 2, 3}, {1, 2, 3, 4}, {3, 4}}

\* The words: the tags come from the probes, of which the last one has none, the aliases of networks
\* are known beforehand, and "k" is a part of all of them.
MCFixedWords == <<{}, {"k1x"}>>
MCContaining == [w \in {"k", "u", "k1x", "world"} |-> IF w = "k" THEN {"k1", "k1x"} ELSE {w}]

\* Two continents, a place that overlaps both, two magic strings, and the world by its name.
MCPlainMatch == <<{1, 2, 3}, {4}, {2, 3, 4}, {1, 2, 3, 4}, {1, 2, 3, 4}, {}>>
MCMagic == <<<<>>, <<>>, <<>>, <<"k">>, <<"k1x", "u">>, <<"world">>>>
MCWeightOf == <<3, 1, 1, 1, 1, 1>>

\* Places of addresses: three services that may agree on the country, or only on the name of the
\* city, and may not know the city or the network.
MCProviders == <<"ipinfo", "maxmind", "fastly">>
Report(country, city, near, asn, network) ==
  [country |-> country, city |-> city, near |-> near, asn |-> asn, network |-> network]
MCReports == {Report("X", "a", {1, 2}, 1, "n"), Report("X", "c", {}, Unknown, "m"),
              Report("Y", "a", {}, 2, "m"), Report("X", Unknown, {1}, 1, "N")}
MCNameOf == <<"a", "b">>
MCCountryOf == <<"X", "X">>
MCNormal == [w \in {"n", "N", "m"} |-> IF w = "m" THEN "m" ELSE "n"]

\* Limits: any two of the probes share a group, a /64 range, or an alternative IP.
MCIp == <<"a", "r2", "r1">>
MCAltIps == <<{}, {}, {"a"}>>
MCGroup == <<"g", "g", Nothing>>
MCKey == [ip \in {"a", "r1", "r2"} |-> IF ip = "a" THEN "a" ELSE "r"]
MCHome == <<"n1", "n1", "n2">>

\* Lists: the two ranges of the first bucket overlap, address 4 is a relay's, address 1 is in no
\* cloud.
CloudRange(tags, bucket, addresses) == [tags |-> tags, bucket |-> bucket, addresses |-> addresses]
MCCloudRanges == [c \in {"aws", "gcp"} |->
  IF c = "aws" THEN <<CloudRange(<<"aws-x", "aws">>, 1, {2, 3})>>
  ELSE <<CloudRange(<<"gcp-y", "gcp">>, 1, {3}), CloudRange(<<"gcp-z", "gcp">>, 2, {5})>>]
MCBucketOf == <<1, 1, 1, 1, 2>>
MCOwnAddress == <<1, 3>>
MCClaims == <<{<<>>, <<3, 5>>, <<5, 4, 1>>}, {<<>>, <<2>>}>>
===============================================================================
