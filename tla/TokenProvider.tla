--------------------------- MODULE TokenProvider ---------------------------
(***************************************************************************)
(* The access token of ingestion/dhan/client.py: DhanTokenProvider and     *)
(* DhanRestClient in the processes that share one token file, the volume   *)
(* dhan_secrets.  The live collector validates its token, connects its     *)
(* feed and validates again when the feed is lost; a snapshot job          *)
(* validates and reads; the authentication helper mints a token for the    *)
(* file.  The writes of one process interleave with the reads of another.  *)
(*                                                                         *)
(* A token is the number with which Dhan issued it; 0 is no token.  Time   *)
(* is left out: a token leaves fresh when its expiry is near (one without  *)
(* an expiry never does) and leaves live when Dhan no longer accepts it,   *)
(* in either order.  All processes have the settings of one .env file.     *)
(***************************************************************************)
EXTENDS Naturals

CONSTANTS Collectors, Jobs, Helpers,  \* the processes of each kind
          MaxTokens                   \* bound: tokens that Dhan issues

Processes == Collectors \cup Jobs \cup Helpers

ASSUME TokenAssumption ==
  /\ MaxTokens \in Nat \ {0}
  /\ Collectors \cap Jobs = {} /\ Helpers \cap (Collectors \cup Jobs) = {}

VARIABLES
  explicit,   \* DHAN_ACCESS_TOKEN is set (to token 1)
  headless,   \* DHAN_PIN and DHAN_TOTP_SECRET are set
  issued,     \* number of tokens issued
  fresh,      \* not yet within refresh_skew of their expiry
  live,       \* accepted by Dhan
  foreign,    \* issued for another client id, by a browser consent
  file,       \* the token in the token file
  proc        \* the processes

settings == <<explicit, headless>>
dhan     == <<issued, fresh, live, foreign>>
vars     == <<settings, dhan, file, proc>>

(* cached is the provider's _cached, held the token of the REST client,    *)
(* token the local variable of that name in the collector, new the token   *)
(* that is being saved, op the call that is being made.  History: refused  *)
(* are the tokens that Dhan has refused to the process since its start.    *)
Idle == [at |-> "off", op |-> "preflight", cached |-> 0, token |-> 0,
         held |-> 0, new |-> 0, forced |-> FALSE, refused |-> {}]

Explicit == 1

Init ==
  /\ explicit \in BOOLEAN /\ headless \in BOOLEAN
  /\ issued = IF explicit THEN 1 ELSE 0
  /\ fresh = 1..issued /\ live = 1..issued /\ foreign = {}
  /\ file = 0
  /\ proc = [p \in Processes |-> Idle]

Update(p, r) == proc' = [proc EXCEPT ![p] = r]

(* A process starts: its provider has nothing cached.  The helper goes     *)
(* straight to Dhan.                                                       *)
Start(p) ==
  /\ proc[p].at = "off"
  /\ Update(p, [Idle EXCEPT !.at = IF p \in Helpers THEN "mint" ELSE "get"])
  /\ UNCHANGED <<settings, dhan, file>>

(* It dies or is stopped, at any point. *)
Crash(p) ==
  /\ proc[p].at # "off"
  /\ Update(p, Idle)
  /\ UNCHANGED <<settings, dhan, file>>

-----------------------------------------------------------------------------
(* Between two calls only the provider keeps something. *)
Between(r, at, op) ==
  [Idle EXCEPT !.at = at, !.op = op, !.cached = r.cached, !.refused = r.refused]

(* What an exception of kind e makes of the process: "config" for          *)
(* DhanConfigError; "auth", "retry" and "other" for a DhanApiError by its  *)
(* status; "io" for an error of the token file, after which the collector  *)
(* validates as if its feed had been lost.  A process that ends is started *)
(* again by Docker or by a user.                                           *)
AfterError(p, e) ==
  LET r == proc[p] IN
  IF p \notin Collectors \/ e \in {"config", "auth", "other"} THEN Idle
  ELSE IF e = "io" /\ r.op = "preflight" THEN Between(r, "get", "validate")
  ELSE Between(r, "wait", r.op)

-----------------------------------------------------------------------------
(* DhanTokenProvider.get_token, forced ("refresh") or not ("get").  *)
Asked(p) == proc[p].at \in {"get", "refresh"}
Forced(p) == proc[p].at = "refresh"

Usable(t) == t \in fresh

CacheServes(p) == ~Forced(p) /\ Usable(proc[p].cached)

(* Fault: an unset DHAN_ACCESS_TOKEN is served, and never checked. *)
ExplicitServesUnset(p) == ~Forced(p) /\ ~Usable(proc[p].cached)

ExplicitServes(p) ==
  ~Forced(p) /\ ~Usable(proc[p].cached) /\ explicit /\ Usable(Explicit)

(* Fault: a forced refresh takes the file's token even if it is cached. *)
FileServesUnchanged(p) ==
  ~CacheServes(p) /\ ~ExplicitServes(p) /\ Usable(file)

(* file_token is usable, and when forced it is not the cached one. *)
FileServes(p) ==
  /\ ~CacheServes(p) /\ ~ExplicitServes(p)
  /\ Usable(file) /\ (Forced(p) => file # proc[p].cached)

NothingServes(p) ==
  ~CacheServes(p) /\ ~ExplicitServes(p) /\ ~FileServes(p)

(* get_token returns t: to a new client, or to _with_auth_refresh, which   *)
(* sets it on the client it has and sends the request again.               *)
Returned(r, t) ==
  IF r.at = "refresh" \/ r.forced
  THEN [r EXCEPT !.at = "again", !.held = t, !.forced = FALSE, !.new = 0]
  ELSE [r EXCEPT !.at = "request", !.held = t, !.token = t, !.new = 0]

UseCached(p) ==
  /\ Asked(p) /\ CacheServes(p)
  /\ Update(p, Returned(proc[p], proc[p].cached))
  /\ UNCHANGED <<settings, dhan, file>>

UseExplicit(p) ==
  /\ Asked(p) /\ ExplicitServes(p)
  /\ Update(p, Returned([proc[p] EXCEPT !.cached = Explicit], Explicit))
  /\ UNCHANGED <<settings, dhan, file>>

UseFile(p) ==
  /\ Asked(p) /\ FileServes(p) /\ file \notin foreign
  /\ Update(p, Returned([proc[p] EXCEPT !.cached = file], file))
  /\ UNCHANGED <<settings, dhan, file>>

RejectFile(p) ==
  /\ Asked(p) /\ FileServes(p) /\ file \in foreign
  /\ Update(p, AfterError(p, "config"))
  /\ UNCHANGED <<settings, dhan, file>>

(* Without credentials to renew it the explicit token is tried once more. *)
RepeatExplicit(p) ==
  /\ Forced(p) /\ NothingServes(p) /\ explicit /\ ~headless
  /\ Update(p, Returned(proc[p], Explicit))
  /\ UNCHANGED <<settings, dhan, file>>

Generate(p) ==
  /\ Asked(p) /\ NothingServes(p) /\ headless
  /\ Update(p, [proc[p] EXCEPT !.at = "mint", !.forced = Forced(p)])
  /\ UNCHANGED <<settings, dhan, file>>

CannotGenerate(p) ==
  /\ Asked(p) /\ NothingServes(p) /\ ~headless
  /\ ~(Forced(p) /\ explicit)
  /\ Update(p, AfterError(p, "config"))
  /\ UNCHANGED <<settings, dhan, file>>

(* generate_access_token, or the helper's consent, which may be another    *)
(* client's.                                                               *)
Mint(p) ==
  /\ proc[p].at = "mint" /\ issued < MaxTokens
  /\ LET n == issued + 1 IN
       /\ issued' = n /\ fresh' = fresh \cup {n} /\ live' = live \cup {n}
       /\ \/ foreign' = foreign
          \/ p \in Helpers /\ foreign' = foreign \cup {n}
       /\ Update(p, [proc[p] EXCEPT !.at = "save", !.new = n])
  /\ UNCHANGED <<settings, file>>

MintFails(p) ==
  /\ proc[p].at = "mint"
  /\ \E e \in {"config", "auth", "retry", "other"} : Update(p, AfterError(p, e))
  /\ UNCHANGED <<settings, dhan, file>>

(* write_token_file replaces the file atomically; the token is cached only *)
(* then.                                                                   *)
Save(p) ==
  /\ proc[p].at = "save"
  /\ file' = proc[p].new
  /\ Update(p, IF p \in Helpers THEN Idle
               ELSE Returned([proc[p] EXCEPT !.cached = proc[p].new], proc[p].new))
  /\ UNCHANGED <<settings, dhan>>

SaveFails(p) ==
  /\ proc[p].at = "save"
  /\ Update(p, AfterError(p, "io"))
  /\ UNCHANGED <<settings, dhan, file>>

-----------------------------------------------------------------------------
(* Requests: DhanRestClient._with_auth_refresh around profile and the      *)
(* snapshot.                                                               *)

(* What follows a call that succeeded. *)
AfterSuccess(p) ==
  LET r == proc[p] IN
  IF r.op = "validate" THEN Between(r, "wait", r.op)
  ELSE IF r.op = "snapshot" THEN Idle
  ELSE IF p \in Jobs THEN [r EXCEPT !.at = "request", !.op = "snapshot"]
  ELSE [Between(r, "feed", r.op) EXCEPT !.token = r.token]

Accept(p) ==
  /\ proc[p].at \in {"request", "again"} /\ proc[p].held \in live
  /\ Update(p, AfterSuccess(p))
  /\ UNCHANGED <<settings, dhan, file>>

(* Fault: a request that could not be completed refreshes the token too. *)
RefreshedForAny(e) == e \in {"auth", "retry"}

Refused(p, e) == IF e = "auth" THEN {proc[p].held} ELSE {}

(* 401 and 403 refresh the token, once. *)
RefreshedFor(e) == e = "auth"

Refuse(p, e) ==
  /\ proc[p].at \in {"request", "again"}
  /\ Update(p, IF proc[p].at = "request" /\ RefreshedFor(e)
               THEN [proc[p] EXCEPT !.at = "refresh", !.refused = @ \cup Refused(p, e)]
               ELSE AfterError(p, e))
  /\ UNCHANGED <<settings, dhan, file>>

(* Dhan refuses a token that it no longer accepts, and some that it does   *)
(* (403); a request may fail in other ways.                                *)
Refuses(p) == proc[p].held \notin live /\ Refuse(p, "auth")

Denies(p) ==
  \/ proc[p].held \in live /\ Refuse(p, "auth")
  \/ \E e \in {"retry", "other"} : Refuse(p, e)

(* validate_market_data_access: the profile is another client's, or the    *)
(* data plan is not active.                                                *)
NotEntitled(p) ==
  /\ proc[p].at \in {"request", "again"} /\ proc[p].op = "preflight"
  /\ proc[p].held \in live
  /\ Update(p, AfterError(p, "config"))
  /\ UNCHANGED <<settings, dhan, file>>

-----------------------------------------------------------------------------
(* The feed was opened with token, the one get_token returned before the   *)
(* preflight, not the one a refresh may have put in its place.             *)
FeedToken(p) == proc[p].token

FeedLost(p) ==
  /\ proc[p].at = "feed"
  /\ Update(p, Between(proc[p], "get", "validate"))
  /\ UNCHANGED <<settings, dhan, file>>

(* After the back-off the collector connects again. *)
Resume(p) ==
  /\ proc[p].at = "wait"
  /\ Update(p, Between(proc[p], "get", "preflight"))
  /\ UNCHANGED <<settings, dhan, file>>

(* A token nears its expiry; Dhan stops accepting a token. *)
Age ==
  /\ \E t \in fresh : fresh' = fresh \ {t}
  /\ UNCHANGED <<settings, issued, live, foreign, file, proc>>

Revoke ==
  /\ \E t \in live : live' = live \ {t}
  /\ UNCHANGED <<settings, issued, fresh, foreign, file, proc>>

-----------------------------------------------------------------------------
(* What a process does when nothing goes wrong around it. *)
Proceed(p) ==
  \/ Start(p) \/ Resume(p)
  \/ UseCached(p) \/ UseExplicit(p) \/ UseFile(p) \/ RejectFile(p)
  \/ RepeatExplicit(p) \/ Generate(p) \/ CannotGenerate(p) \/ Mint(p) \/ Save(p)
  \/ Accept(p) \/ Refuses(p)
  \/ FeedToken(p) \notin live /\ FeedLost(p)

Trouble(p) ==
  \/ Crash(p) \/ MintFails(p) \/ SaveFails(p) \/ Denies(p) \/ NotEntitled(p)
  \/ FeedToken(p) \in live /\ FeedLost(p)

Next == (\E p \in Processes : Proceed(p) \/ Trouble(p)) \/ Age \/ Revoke

Spec == Init /\ [][Next]_vars

(* Processes run, Dhan closes a feed whose token it does not accept, and   *)
(* from some point on nothing goes wrong.                                  *)
FairSpec ==
  /\ Spec
  /\ \A p \in Collectors \cup Jobs : WF_vars(Proceed(p))
  /\ <>[][\E p \in Processes : Proceed(p)]_vars

-----------------------------------------------------------------------------
Process == [at : {"off", "get", "refresh", "mint", "save", "request", "again", "feed",
                  "wait"},
            op : {"preflight", "validate", "snapshot"},
            cached : 0..issued, token : 0..issued, held : 0..issued, new : 0..issued,
            forced : BOOLEAN, refused : SUBSET (1..issued)]

(* Type correctness: every token a process has or the file holds was       *)
(* issued, and only the explicit token and the minted ones.                *)
TypeOK ==
  /\ explicit \in BOOLEAN /\ headless \in BOOLEAN
  /\ issued \in 0..MaxTokens
  /\ fresh \subseteq 1..issued /\ live \subseteq 1..issued
  /\ foreign \subseteq 1..issued
  /\ file \in 0..issued
  /\ proc \in [Processes -> Process]

(* A request is never repeated with a token that Dhan has refused to this  *)
(* process, whatever other processes write to the file in the meantime,    *)
(* except the explicit one when there is nothing else to try.              *)
RetryUsesAnotherToken ==
  \A p \in Processes :
    proc[p].at = "again" /\ proc[p].held \in proc[p].refused =>
      explicit /\ ~headless /\ proc[p].held = Explicit

(* A process logs in for a new token only when Dhan has refused it every   *)
(* usable token that it has: the cached, the explicit and the saved one.   *)
(* "Network/5xx failures must not rotate a still-valid token."             *)
LogsInOnlyWhenRefused ==
  [][\A p \in Collectors \cup Jobs :
       proc[p].at # "mint" /\ proc'[p].at = "mint" =>
         ({proc[p].cached, file} \cup IF explicit THEN {Explicit} ELSE {}) \cap fresh
           \subseteq proc[p].refused]_vars

(* "Unattended daily renewal": with credentials and no explicit token the  *)
(* collector's feed comes to stay open with an accepted token once nothing *)
(* goes wrong any more, whatever its cache and the file hold by then.  A   *)
(* refresh in the preflight, after which it connects with the refused      *)
(* token, delays this by a lost connection.  An explicit token, refused    *)
(* but not expired, can prevent it: the one refresh is then spent on the   *)
(* file, and when that is refused too the next process starts over.        *)
(* Excused: a token of another client in the file, and the bound.          *)
Streams(p) == proc[p].at = "feed" /\ FeedToken(p) \in live

Exhausted == issued = MaxTokens /\ \E p \in Processes : proc[p].at = "mint"

RenewsUnattended ==
  headless /\ ~explicit =>
    \A p \in Collectors : <>[]Streams(p) \/ <>(Exhausted \/ foreign # {})
=============================================================================
