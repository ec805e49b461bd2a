----------------------------- MODULE CataloguePlan -----------------------------
(***************************************************************************)
(* How one poll of a region finds the catalogue it mirrors: the requests   *)
(* of execute_once, of fetch_live_asset_bundle_info and of                 *)
(* execute_with_filter up to its download tasks (src/service/poller.rs,    *)
(* src/core/asset_execution.rs).                                           *)
(*                                                                         *)
(* Three askers follow each other while the publisher goes on: layer 0 for *)
(* the version that becomes the watermark, layer 1 for the catalogue of    *)
(* the diff and the snapshot, the executor for the one it downloads.  The  *)
(* last two work out the catalogue's address each on its own.              *)
(***************************************************************************)
EXTENDS JobState

CONSTANTS
  Providers,    \* the provider settings that a run considers
  Rounds,       \* FAILED_REGION_RETRY_ATTEMPTS
  MaxPublished  \* bound: how often the publisher moves on

ASSUME PlanBounds == Rounds \in Nat \ {0} /\ MaxPublished \in Nat

(* A profile is a number, 0 for None.  profile_hashes has a hash for some;  *)
(* the game server names a profile, a host hash, both or neither.           *)
ASSUME ProvidersAssumption ==
  /\ Providers # {}
  /\ \A p \in Providers : p.answers \subseteq [profile : Nat, host : BOOLEAN]

VARIABLES
  at,          \* where the poll is
  who,         \* the asker: "live" is layer 1, "exec" the executor
  provider,    \* the settings of the region's provider
  live,        \* what the publisher offers: [app, asset]
  round,       \* the attempt of retry_region_in_place
  tried,       \* the attempt of the request
  cur,         \* what layer 0 found: [app, asset], the watermark to be
  ctx,         \* what the asker has resolved
  new_info,    \* the catalogue of layer 1, known by its address
  info,        \* the catalogue of the executor
  recorded,    \* the assets that the download record has
  why          \* why the attempt failed

planVars == <<at, who, provider, live, round, tried, cur, ctx, new_info, info, recorded, why>>

(* The publisher numbers the versions of the app and of the assets; 0 is    *)
(* None.  A version of the app has its own host hash for each profile.  The *)
(* configuration knows profile 1 and version 1: the hashes of               *)
(* profile_hashes, or Nuverse's app_version.                                *)
None == [app |-> 0, asset |-> 0, profile |-> 0, host |-> 0]
NoVersion == [app |-> 0, asset |-> 0]
Configured == 1

PlanInit ==
  /\ at = "idle" /\ who = "live" /\ provider = (CHOOSE p \in Providers : TRUE)
  /\ live = [app |-> 1, asset |-> 2] /\ round = 0 /\ tried = 0
  /\ cur = NoVersion /\ ctx = None /\ new_info = None /\ info = None
  /\ recorded = 0 /\ why = "none"

Colorful == provider.kind = "colorful_palette"

(* The publisher brings out new assets or a new app. *)
Publish ==
  /\ live.app + live.asset < 3 + MaxPublished
  /\ \E part \in {"app", "asset"} : live' = [live EXCEPT ![part] = @ + 1]
  /\ NoFault
  /\ UNCHANGED <<at, who, provider, round, tried, cur, ctx, new_info, info, recorded, why>>
--------------------------------------------------------------------------------
(* current_version.json, as far as the publisher fills it in. *)
Current == [app |-> IF provider.names_app THEN live.app ELSE 0,
            asset |-> IF provider.names_asset THEN live.asset ELSE 0]

First == IF provider.required_cookies THEN "cookie" ELSE "versions"

(* A context of its own for each asker, made from the request that layer 0  *)
(* filled in.                                                               *)
Asks(asker, asset) ==
  /\ who' = asker /\ at' = First /\ tried' = 1
  /\ ctx' = [None EXCEPT !.asset = asset]

PollOver(outcome) ==
  /\ at' = outcome /\ who' = "live" /\ round' = 0 /\ tried' = 0 /\ cur' = NoVersion
  /\ ctx' = None /\ new_info' = None /\ info' = None /\ why' = "none"

(* Layer 0 asks once, and never without an address. *)
Layer0 ==
  /\ at = "idle"
  /\ \/ /\ provider.current_version_url /\ NoFault
        /\ cur' = Current /\ round' = 1 /\ Asks("live", cur'.asset)
        /\ UNCHANGED <<new_info, info, why>>
     \/ ~provider.current_version_url /\ NoFault /\ PollOver("error")
     \/ (Fault("http") \/ Fault("refused")) /\ PollOver("error")
  /\ UNCHANGED <<provider, live, recorded>>

AttemptFails(reason) ==
  /\ at' = "failed" /\ why' = reason
  /\ UNCHANGED <<who, provider, live, round, tried, cur, ctx, new_info, info, recorded>>

(* A request ends well and the context goes on ... *)
Answered(step, next) ==
  /\ at = step /\ at' = next /\ tried' = 1 /\ NoFault
  /\ UNCHANGED <<provider, live, round, cur, recorded, why>>

Requests == {"cookie", "current", "game", "version", "catalogue"}

(* ... or fails: transient failures are retried, others are not. *)
RequestFails ==
  /\ at \in Requests
  /\ \/ /\ Fault("http") /\ MayRetry(tried) /\ tried' = tried + 1
        /\ UNCHANGED <<at, who, provider, live, round, cur, ctx, new_info, info, recorded, why>>
     \/ Fault("http") /\ ~MayRetry(tried) /\ AttemptFails("http")
     \/ Fault("refused") /\ AttemptFails("refused")

Cookie == Answered("cookie", "versions") /\ UNCHANGED <<who, ctx, new_info, info>>

(* Only layer 1 calls resolve_provider_versions. *)
Both == "current"   \* mutant: so does the executor
AfterCookie == IF who = "live" THEN "current" ELSE "address"

ResolveVersions == Answered("versions", AfterCookie) /\ UNCHANGED <<who, ctx, new_info, info>>

OrConfigured(n) == IF n = 0 THEN Configured ELSE n

AsksGame == Colorful /\ provider.game_version_url /\ ctx'.app # 0

CurrentVersion ==
  /\ ctx' = IF Colorful THEN [app |-> Current.app, asset |-> Current.asset,
                              profile |-> Configured, host |-> 0]
            ELSE [ctx EXCEPT !.app = OrConfigured(Current.app)]
  /\ Answered("current", IF AsksGame THEN "game" ELSE "address")
  /\ UNCHANGED <<who, new_info, info>>

(* The answers of the game server and of the catalogue are encrypted. *)
NeedsKey == at \in {"game", "catalogue"} /\ ~provider.crypto
NoKey == NeedsKey /\ NoFault /\ AttemptFails("crypto")

(* The server's profile or else the configured one, and the host hash if it *)
(* names one.                                                               *)
GameVersion ==
  /\ ~NeedsKey
  /\ \E a \in provider.answers :
       ctx' = [ctx EXCEPT !.profile = OrConfigured(a.profile),
                          !.host = IF a.host THEN ctx.app ELSE 0]
  /\ Answered("game", "address")
  /\ UNCHANGED <<who, new_info, info>>

(* render_asset_info_url *)
Profile == OrConfigured(ctx.profile)
HostHash == IF ctx.host # 0 THEN ctx.host
            ELSE IF Profile \in provider.profile_hashes THEN Configured ELSE 0

Address ==
  \/ /\ Colorful /\ ctx.asset # 0 /\ HostHash # 0
     /\ Answered("address", "catalogue")
     /\ ctx' = [ctx EXCEPT !.profile = Profile, !.host = HostHash]
     /\ UNCHANGED <<who, new_info, info>>
  \/ /\ ~Colorful /\ Answered("address", "version")
     /\ ctx' = [ctx EXCEPT !.app = OrConfigured(@)]
     /\ UNCHANGED <<who, new_info, info>>
  \/ at = "address" /\ Colorful /\ ctx.asset = 0 /\ NoFault /\ AttemptFails("version")
  \/ /\ at = "address" /\ Colorful /\ ctx.asset # 0 /\ HostHash = 0
     /\ NoFault /\ AttemptFails("host hash")

(* Nuverse: the version of the assets comes from the CDN, always, and from  *)
(* an address that has the version of the app in it.  To an app that is not *)
(* the latest the CDN may offer an older version.                           *)
AssetVersion ==
  /\ Answered("version", "catalogue")
  /\ \E asset \in IF ctx.app = live.app THEN {live.asset} ELSE 1..live.asset :
       ctx' = [ctx EXCEPT !.asset = asset]
  /\ UNCHANGED <<who, new_info, info>>

(* The address decides what is read. *)
Addressed == IF Colorful THEN [ctx EXCEPT !.app = 0] ELSE ctx

Catalogue ==
  /\ at = "catalogue" /\ ~NeedsKey /\ NoFault
  /\ \/ who = "live" /\ new_info' = Addressed /\ Asks("exec", cur.asset) /\ UNCHANGED info
     \/ /\ who = "exec" /\ info' = Addressed /\ at' = "planned" /\ tried' = 0
        /\ UNCHANGED <<who, ctx, new_info>>
  /\ UNCHANGED <<provider, live, round, cur, recorded, why>>

(* build_download_tasks finds nothing that is not in the record. *)
NothingNew ==
  /\ at = "planned" /\ info.asset = recorded /\ NoFault
  /\ PollOver("nothing") /\ UNCHANGED <<provider, live, recorded>>

(* retry_region_in_place, and the next tick. *)
NextRound ==
  /\ at = "failed" /\ NoFault
  /\ \/ /\ round < Rounds /\ round' = round + 1 /\ Asks("live", cur.asset)
        /\ new_info' = None /\ info' = None /\ why' = "none" /\ UNCHANGED cur
     \/ round = Rounds /\ PollOver("error")
  /\ UNCHANGED <<provider, live, recorded>>

(* The settings say which provider the region has. *)
Configure ==
  /\ provider' \in Providers
  /\ UNCHANGED <<at, who, live, round, tried, cur, ctx, new_info, info, recorded, why>>

NextPoll ==
  /\ at \in {"completed", "nothing", "error"} /\ NoFault
  /\ PollOver("idle") /\ UNCHANGED <<provider, live, recorded>>

PlanNext ==
  \/ Publish \/ Layer0 \/ RequestFails \/ Cookie \/ ResolveVersions \/ CurrentVersion \/ NoKey
  \/ GameVersion \/ Address \/ AssetVersion \/ Catalogue \/ NothingNew \/ NextRound
  \/ NextPoll
--------------------------------------------------------------------------------
Hosted == provider.game_version_url /\ provider.names_app
OtherProfile ==
  Hosted /\ \E a \in provider.answers : OrConfigured(a.profile) # Configured

(* Layer 1 may have to look for a hash that profile_hashes does not have. *)
HashUnknown ==
  IF Hosted
  THEN \E a \in provider.answers :
         ~a.host /\ OrConfigured(a.profile) \notin provider.profile_hashes
  ELSE Configured \notin provider.profile_hashes

(* Which catalogue the executor downloads.  ColorfulPalette: in every round *)
(* that of the version that becomes the watermark, whatever is published    *)
(* meanwhile, as the comment in execute_once wants it.  Nuverse: never an   *)
(* older one, as long as the configured app is the latest.  If nothing was  *)
(* published since layer 0, layer 1 has compared the very same catalogue -  *)
(* unless the app has moved on from the one that is configured, or the game *)
(* server names another profile than the configured one: layer 1 follows    *)
(* both and the executor neither.  The executor also knows no host hash but *)
(* the configured one, so that without it every attempt fails after layer 1 *)
(* has got through.                                                         *)
CatalogueAgrees ==
  /\ at = "planned" =>
       /\ IF Colorful
          THEN /\ info.asset = cur.asset /\ info.host = Configured /\ info.profile = Configured
               /\ Configured \in provider.profile_hashes
          ELSE /\ info.app = Configured
               /\ live.app = Configured => info.asset >= cur.asset
       /\ live = cur /\ live.app = Configured =>
            new_info = [info EXCEPT !.profile = new_info.profile]
       /\ new_info.profile # info.profile => Colorful /\ OtherProfile
       /\ new_info.host # info.host => Hosted /\ live.app # Configured
  /\ at = "failed" =>
       CASE why = "http" -> ~MayRetry(tried)
         [] why = "version" -> Colorful /\ ~provider.names_asset
         [] why = "host hash" ->
              /\ Colorful
              /\ IF who = "live" THEN HashUnknown ELSE Configured \notin provider.profile_hashes
         [] why = "crypto" -> ~provider.crypto
         [] OTHER -> why \in {"refused", "charts"}
===============================================================================
