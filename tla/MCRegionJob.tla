------------------------------ MODULE MCRegionJob ------------------------------
(* RegionJob for TLC: two regions, and the settings and providers worth      *)
(* telling apart.                                                            *)
EXTENDS RegionJob

(* The configuration file. *)
File ==
  [media_encode : {Absent, 1, Ref}, audio_encode : {1, Text}, attempts : {0, 2},
   password : {Text, Ref}]
  \cup {[media_encode |-> Scalar, audio_encode |-> Scalar, attempts |-> 2, password |-> Text]}

(* The overrides in the order of their names: HARUKI__CONCURRENCY,           *)
(* HARUKI__CONCURRENCY__AUDIO_ENCODE, the one of the password, and           *)
(* HARUKI__concurrency.                                                      *)
Optional(o) == {<<>>, <<o>>}
Whole(media, audio) == [media_encode |-> media, audio_encode |-> audio]
MCOverrides ==
  { upper \o audio \o password \o lower :
      upper \in Optional(Whole(Absent, 2)) \cup {<<Whole(Scalar, Scalar)>>},
      audio \in Optional([audio_encode |-> 3]) \cup {<<[audio_encode |-> 0]>>},
      password \in Optional([password |-> Ref]),
      lower \in Optional(Whole(5, Absent)) }

MCLayers ==
  [file : File, overrides : MCOverrides, malformed : {0}, variable : BOOLEAN,
   media : {Absent, 4}, audio : {Absent, 0, 6}, sound : {TRUE}]
  \cup {[NoLayers EXCEPT !.media = Text], [NoLayers EXCEPT !.sound = FALSE],
        [NoLayers EXCEPT !.overrides = <<[password |-> 7]>>],
        [NoLayers EXCEPT !.overrides = <<[attempts |-> 3], [attempts |-> 4]>>, !.malformed = 2]}

MCSources == [uri : BOOLEAN, candidates : {0, 2}]

Machine(cpus, budget_auto, auto_tune, post_process, processes, throttle) ==
  [cpus |-> cpus, budget_auto |-> budget_auto, ratio |-> 50, reserved |-> 1,
   auto_tune |-> auto_tune, download |-> 0, post_process |-> post_process, video |-> 4,
   processes |-> processes, throttle |-> throttle]
MCMachines ==
  { Machine(1, TRUE, TRUE, 0, 0, TRUE), Machine(1, TRUE, FALSE, 0, 0, FALSE),
    Machine(8, FALSE, TRUE, 16, 0, TRUE), Machine(8, TRUE, TRUE, 16, 3, FALSE) }

(* A complete provider of each kind, and those that lack one thing. *)
Complete(kind) ==
  [kind |-> kind, required_cookies |-> TRUE, current_version_url |-> TRUE,
   game_version_url |-> TRUE, names_app |-> TRUE, names_asset |-> TRUE,
   profile_hashes |-> {Configured}, answers |-> {[profile |-> 0, host |-> TRUE]},
   crypto |-> TRUE]
Lacking(kind, what) == [Complete(kind) EXCEPT ![what] = FALSE]
Hashless(p) == [p EXCEPT !.profile_hashes = {}]
MCProviders ==
  {Complete("colorful_palette"),
   [Complete("nuverse") EXCEPT !.required_cookies = FALSE],
   Hashless(Complete("colorful_palette")),
   Hashless(Lacking("colorful_palette", "game_version_url")),
   [Complete("colorful_palette") EXCEPT !.answers = [profile : {2}, host : BOOLEAN]]}
  \cup { Lacking("colorful_palette", what) :
           what \in {"current_version_url", "names_app", "names_asset", "crypto"} }
===============================================================================
