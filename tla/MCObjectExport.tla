---------------------------- MODULE MCObjectExport ----------------------------
(* ObjectExport for TLC: a bundle in which objects meet under one name.      *)
EXTENDS ObjectExport

Asset(kind, container, name, sig, bytes) ==
  [kind |-> kind, container |-> container, name |-> name, sig |-> sig, bytes |-> bytes,
   enabled |-> TRUE, holds |-> {}]

A == <<"ondemand", "a">>
MCAssets ==
  << Asset("texture", A, "a", "i1", 2), Asset("mono", A, "a", "m1", 0),
     Asset("mono", A, "a", "m1", 0), Asset("playable", A, "a", "p1", 0),
     Asset("mono", <<"startapp", "a">>, "a", "m2", 0), Asset("mono", A, "n", "m3", 0),
     Asset("acb", <<>>, "s", "s1", 0), Asset("usm", <<>>, "s", "s2", 0),
     Asset("texture", <<"startapp", "a">>, "b", "i2", 2), Asset("playable", A, "b", "p2", 0),
     Asset("untyped", <<>>, "u", "u1", 0), Asset("sprite", A, "t", "i3", 1),
     Asset("array", A, "t", "i4", 2), Asset("arrayImage", A, "t", "i5", 1),
     Asset("sprite", A, "t", "i6", 1),
     Asset("animator", A, "t", "n1", 0), Asset("animator", A, "t", "n2", 0),
     [Asset("bundle", <<>>, "c", "b1", 0) EXCEPT !.holds = {A}],
     [Asset("font", A, "a", "f1", 0) EXCEPT !.enabled = FALSE] >>

MCLeftovers ==
  {{}, {<<<<"a">>, 1, "json">>},
   {<<<<"a">>, 1, "webp">>, <<<<"a", "array", "t", "layer">>, 1, "png">>,
    <<<<"a", "animator", "t", "model">>, 1, "fbx">>}}
===============================================================================
